---- MODULE Spec2Model ----
(***************************************************************************)
(* TripGuard: hybrid retrieval, reranking, confidence gate and the         *)
(* evaluation harness (src/RAG/retriever.py, src/RAG/test_ragas.py,        *)
(* src/RAG/threshold_optimization.py).                                     *)
(*                                                                         *)
(* Scores and thresholds are kept in tenths: 5 stands for 0.5.             *)
(* A text is a sequence of one-character strings, so that str.strip() is   *)
(* a real computation.                                                     *)
(***************************************************************************)
EXTENDS Integers, Sequences, FiniteSets, TLC

VARIABLES
    EMBEDDING_MODEL,  \* retriever._EMBEDDING_MODEL: 0 is None, n > 0 the n-th object built
    VECTOR_DB,        \* retriever._VECTOR_DB, likewise
    RERANKER,         \* retriever._RERANKER, likewise
    built,            \* history: how many objects of each kind were constructed
    oracleCalls,      \* history: how many times reranker.score was invoked
    pc,               \* position of the sequential caller
    call,             \* the frame of the call in progress (arguments, locals, result)
    threads,          \* frames of the concurrent callers of the lazy getters
    ev                \* the frame of evaluate_retrieval_mode

vars == <<EMBEDDING_MODEL, VECTOR_DB, RERANKER, built, oracleCalls, pc, call, threads, ev>>

----------------------------------------------------------------------------
(* Bounds of the model *)

MaxRet == 2      \* longest list a retriever hands back in the pipeline
MaxLen == 2      \* longest list given to ensemble_results when called directly
MaxCand == 3     \* longest candidate list given to rerank_documents directly
MaxCalls == 2    \* reranker.score invocations followed in one behaviour
NThreads == 2    \* concurrent callers of the lazy getters
MaxCases == 2    \* test cases in one evaluation batch
MaxRetrieved == 2  \* passages a retrieval hands to the evaluation harness
MaxChanges == 2  \* changes of the stored corpus between lexical searches

(* Program constants *)

RERANK_SCORE_THRESHOLD == 5     \* 0.5
DEFAULT_SCORE_THRESHOLD == 5    \* rerank_documents(score_threshold=0.5)
DEFAULT_TOP_K == 3              \* rerank_documents(top_k=3)
POLICY_TOP_K == 3               \* get_manual_hybrid_results: top_k=3
POLICY_K == 10                  \* get_manual_hybrid_results: k=10
DEFAULT_MAX_SCORE == 10         \* metadata.get('rerank_score', 1.0)

----------------------------------------------------------------------------
(* Texts and documents *)

Whitespace == {" "}

Min(a, b) == IF a <= b THEN a ELSE b

RECURSIVE LStrip(_)
LStrip(s) ==
    IF s = <<>> THEN <<>>
    ELSE IF Head(s) \in Whitespace THEN LStrip(Tail(s)) ELSE s

RECURSIVE RStrip(_)
RStrip(s) ==
    IF s = <<>> THEN <<>>
    ELSE IF s[Len(s)] \in Whitespace THEN RStrip(SubSeq(s, 1, Len(s) - 1)) ELSE s

\* str.strip()
Strip(s) == RStrip(LStrip(s))

\* langchain Document(page_content, metadata)
Document(content, meta) == [page_content |-> content, metadata |-> meta]

\* The corpus: two chunks with the same trimmed text (one from each file),
\* and three chunks with texts of their own.
Corpus ==
    { Document(<<"a">>, [source |-> "f1"]),
      Document(<<" ", "a">>, [source |-> "f2"]),
      Document(<<"b">>, [source |-> "f1"]),
      Document(<<"c", " ">>, [source |-> "f2"]),
      Document(<<"d">>, [source |-> "f2"]) }

\* the raw scores the cross-encoder can give (0.3, 0.5, 0.6, 0.8)
ScoreVals == {3, 5, 6, 8}

SeqsUpTo(S, n) == UNION { [1..m -> S] : m \in 0..n }

----------------------------------------------------------------------------
(* ensemble_results *)

HasKey(unique_docs, key) == \E i \in 1..Len(unique_docs) : unique_docs[i][1] = key

\* the loop over vector_docs + keyword_docs; unique_docs is the insertion-ordered dict
RECURSIVE EnsembleLoop(_, _)
EnsembleLoop(docs, unique_docs) ==
    IF docs = <<>> THEN unique_docs
    ELSE LET doc == Head(docs)
             key == Strip(doc.page_content)
         IN  IF ~HasKey(unique_docs, key)
             THEN EnsembleLoop(Tail(docs), Append(unique_docs, <<key, doc>>))
             ELSE EnsembleLoop(Tail(docs), unique_docs)

\* a mutant: a later passage with the same key replaces the earlier one
RECURSIVE EnsembleLoopLastWins(_, _)
EnsembleLoopLastWins(docs, unique_docs) ==
    IF docs = <<>> THEN unique_docs
    ELSE LET doc == Head(docs)
             key == Strip(doc.page_content)
         IN  IF ~HasKey(unique_docs, key)
             THEN EnsembleLoopLastWins(Tail(docs), Append(unique_docs, <<key, doc>>))
             ELSE EnsembleLoopLastWins(Tail(docs),
                      [i \in 1..Len(unique_docs) |->
                          IF unique_docs[i][1] = key THEN <<key, doc>> ELSE unique_docs[i]])

EnsembleResultsLastWins(vector_docs, keyword_docs) ==
    LET unique_docs == EnsembleLoopLastWins(vector_docs \o keyword_docs, <<>>)
    IN  [i \in 1..Len(unique_docs) |-> unique_docs[i][2]]

\* a mutant: the semantic list is kept as it is, and only the lexical
\* passages are tested against the texts already seen
EnsembleResultsKeepVector(vector_docs, keyword_docs) ==
    LET kept == EnsembleLoop(vector_docs \o keyword_docs, <<>>)
        extra == SelectSeq([n \in 1..Len(kept) |-> kept[n][2]],
                           LAMBDA d : \A m \in 1..Len(vector_docs) :
                                         Strip(vector_docs[m].page_content) # Strip(d.page_content))
    IN  vector_docs \o extra

\* a mutant: the values of the dict are returned last key first
EnsembleResultsReversed(vector_docs, keyword_docs) ==
    LET kept == EnsembleLoop(vector_docs \o keyword_docs, <<>>)
    IN  [n \in 1..Len(kept) |-> kept[Len(kept) + 1 - n][2]]

EnsembleResults(vector_docs, keyword_docs) ==
    LET unique_docs == EnsembleLoop(vector_docs \o keyword_docs, <<>>)
    IN  [i \in 1..Len(unique_docs) |-> unique_docs[i][2]]

----------------------------------------------------------------------------
(* rerank_documents: the ranking part *)

Zip(xs, ys) == [i \in 1..Min(Len(xs), Len(ys)) |-> <<xs[i], ys[i]>>]

\* Number of leading pairs of a descending list whose score is >= score.
RECURSIVE PrefixGeq(_, _)
PrefixGeq(sorted, score) ==
    IF sorted = <<>> \/ Head(sorted)[2] < score THEN 0
    ELSE 1 + PrefixGeq(Tail(sorted), score)

InsertDesc(sorted, pair) ==
    LET n == PrefixGeq(sorted, pair[2])
    IN  SubSeq(sorted, 1, n) \o <<pair>> \o SubSeq(sorted, n + 1, Len(sorted))

\* sorted(pairs, key=lambda x: x[1], reverse=True): stable
RECURSIVE SortedByScoreFrom(_, _)
SortedByScoreFrom(pairs, acc) ==
    IF pairs = <<>> THEN acc
    ELSE SortedByScoreFrom(Tail(pairs), InsertDesc(acc, Head(pairs)))

SortedByScore(pairs) == SortedByScoreFrom(pairs, <<>>)

\* Document(page_content=..., metadata=doc.metadata.copy()) with rerank_score set
WithScore(doc, score) ==
    Document(doc.page_content,
             [k \in DOMAIN doc.metadata \cup {"rerank_score"} |->
                 IF k = "rerank_score" THEN score ELSE doc.metadata[k]])

\* a mutant: the cutoff is exclusive
RECURSIVE FilterLoopStrict(_, _, _)
FilterLoopStrict(scored, score_threshold, result_docs) ==
    IF scored = <<>> THEN result_docs
    ELSE LET doc == Head(scored)[1]
             score == Head(scored)[2]
         IN  IF score > score_threshold
             THEN FilterLoopStrict(Tail(scored), score_threshold,
                                   Append(result_docs, WithScore(doc, score)))
             ELSE FilterLoopStrict(Tail(scored), score_threshold, result_docs)

\* the loop over scored_docs[:top_k]
RECURSIVE FilterLoop(_, _, _)
FilterLoop(scored, score_threshold, result_docs) ==
    IF scored = <<>> THEN result_docs
    ELSE LET doc == Head(scored)[1]
             score == Head(scored)[2]
         IN  IF score >= score_threshold
             THEN FilterLoop(Tail(scored), score_threshold,
                             Append(result_docs, WithScore(doc, score)))
             ELSE FilterLoop(Tail(scored), score_threshold, result_docs)

\* a mutant: the sort is skipped
RankAndFilterUnsorted(merged_docs, scores, top_k, score_threshold) ==
    LET scored_docs == Zip(merged_docs, scores)
    IN  FilterLoop(SubSeq(scored_docs, 1, Min(top_k, Len(scored_docs))),
                   score_threshold, <<>>)

\* a mutant: the cutoff is applied before the truncation to top_k
RankAndFilterCutFirst(merged_docs, scores, top_k, score_threshold) ==
    LET kept == FilterLoop(SortedByScore(Zip(merged_docs, scores)), score_threshold, <<>>)
    IN  SubSeq(kept, 1, Min(top_k, Len(kept)))

\* a mutant: the candidates are ranked by ascending score
RankAndFilterAscending(merged_docs, scores, top_k, score_threshold) ==
    LET sorted == SortedByScore(Zip(merged_docs, scores))
        scored_docs == [i \in 1..Len(sorted) |-> sorted[Len(sorted) + 1 - i]]
    IN  FilterLoop(SubSeq(scored_docs, 1, Min(top_k, Len(scored_docs))),
                   score_threshold, <<>>)

\* lines 126-151 of rerank_documents, given the scores the oracle answered
RankAndFilter(merged_docs, scores, top_k, score_threshold) ==
    LET scored_docs == SortedByScore(Zip(merged_docs, scores))
    IN  FilterLoop(SubSeq(scored_docs, 1, Min(top_k, Len(scored_docs))),
                   score_threshold, <<>>)

----------------------------------------------------------------------------
(* The lazily built singletons *)

NoExc == "none"

Globals == [emb |-> EMBEDDING_MODEL, db |-> VECTOR_DB, rr |-> RERANKER, built |-> built]

SetGlobals(g) ==
    /\ EMBEDDING_MODEL' = g.emb
    /\ VECTOR_DB' = g.db
    /\ RERANKER' = g.rr
    /\ built' = g.built

\* get_embedding_model(); load_ok: HuggingFaceEmbeddings(...) does not raise
GetEmbeddingModel(g, load_ok) ==
    IF g.emb # 0 THEN [g |-> g, exc |-> NoExc, val |-> g.emb]
    ELSE IF ~load_ok THEN [g |-> g, exc |-> "EmbeddingLoadError", val |-> 0]
    ELSE LET n == g.built.emb + 1
             h == [g EXCEPT !.emb = n, !.built.emb = n]
         IN  [g |-> h, exc |-> NoExc, val |-> n]

\* get_vector_db(); env: [dir_exists, emb_ok, chroma_ok]
GetVectorDb(g, env) ==
    IF g.db # 0 THEN [g |-> g, exc |-> NoExc, val |-> g.db]
    ELSE IF ~env.dir_exists THEN [g |-> g, exc |-> "FileNotFoundError", val |-> 0]
    ELSE LET e == GetEmbeddingModel(g, env.emb_ok)
         IN  IF e.exc # NoExc THEN [g |-> e.g, exc |-> e.exc, val |-> 0]
             ELSE IF ~env.chroma_ok THEN [g |-> e.g, exc |-> "ChromaError", val |-> 0]
             ELSE LET n == e.g.built.db + 1
                      h == [e.g EXCEPT !.db = n, !.built.db = n]
                  IN  [g |-> h, exc |-> NoExc, val |-> n]

\* get_reranker(); load_ok: HuggingFaceCrossEncoder(...) does not raise
GetReranker(g, load_ok) ==
    IF g.rr # 0 THEN [g |-> g, exc |-> NoExc, val |-> g.rr]
    ELSE IF ~load_ok THEN [g |-> g, exc |-> "RerankerLoadError", val |-> 0]
    ELSE LET n == g.built.rr + 1
             h == [g EXCEPT !.rr = n, !.built.rr = n]
         IN  [g |-> h, exc |-> NoExc, val |-> n]

----------------------------------------------------------------------------
(* rerank_documents: the whole call *)

\* What the cross-encoder does when asked to score n pairs: it cannot be
\* loaded (only when not loaded yet), its score call raises, or it answers
\* one score per pair.
OracleOutcomes(n, rr) ==
    { [kind |-> "ok", scores |-> s] : s \in [1..n -> ScoreVals] }
    \cup { [kind |-> "score_error", scores |-> <<>>] }
    \cup (IF rr = 0 THEN { [kind |-> "load_error", scores |-> <<>>] } ELSE {})

\* a mutant: the model is fetched and asked before the list is looked at
RerankDocumentsEager(merged_docs, top_k, score_threshold, g, calls, oracle) ==
    LET r == GetReranker(g, oracle.kind # "load_error")
    IN  IF r.exc # NoExc
        THEN [ret |-> <<>>, exc |-> r.exc, g |-> r.g, calls |-> calls, scores |-> <<>>]
        ELSE IF oracle.kind = "score_error"
        THEN [ret |-> <<>>, exc |-> "ScoreError", g |-> r.g, calls |-> calls + 1,
              scores |-> <<>>]
        ELSE [ret |-> RankAndFilter(merged_docs, oracle.scores, top_k, score_threshold),
              exc |-> NoExc, g |-> r.g, calls |-> calls + 1, scores |-> oracle.scores]

\* rerank_documents(query, merged_docs, top_k, score_threshold)
RerankDocuments(merged_docs, top_k, score_threshold, g, calls, oracle) ==
    IF merged_docs = <<>>
    THEN [ret |-> <<>>, exc |-> NoExc, g |-> g, calls |-> calls, scores |-> <<>>]
    ELSE LET r == GetReranker(g, oracle.kind # "load_error")
         IN  IF r.exc # NoExc
             THEN [ret |-> <<>>, exc |-> r.exc, g |-> r.g, calls |-> calls, scores |-> <<>>]
             ELSE IF oracle.kind = "score_error"
             THEN [ret |-> <<>>, exc |-> "ScoreError", g |-> r.g, calls |-> calls + 1,
                   scores |-> <<>>]
             ELSE [ret |-> RankAndFilter(merged_docs, oracle.scores, top_k, score_threshold),
                   exc |-> NoExc, g |-> r.g, calls |-> calls + 1, scores |-> oracle.scores]

----------------------------------------------------------------------------
(* The frame of a call *)

NoResult == [kind |-> "pending", entries |-> <<>>, message |-> NoExc]

IdleFrame ==
    [fn |-> "none", top_k |-> 0, score_threshold |-> 0,
     vector_docs |-> <<>>, keyword_docs |-> <<>>, bm25_failed |-> FALSE,
     merged_docs |-> <<>>, scores |-> <<>>, reranked_docs |-> <<>>,
     rejected |-> FALSE, stage |-> "none", exc |-> NoExc,
     rr_before |-> 0, calls_before |-> 0,
     result |-> NoResult]

NoThreads == [t \in 1..NThreads |-> [fn |-> "none", pc |-> "idle", obj |-> 0, ret |-> 0]]

NoEval == [pc |-> "off"]

----------------------------------------------------------------------------
(* SpecFn: ensemble_results and rerank_documents called on their own *)

\* the lists rerank_documents is given: every call site passes the output of
\* ensemble_results
CandidateLists == { c \in SeqsUpTo(Corpus, MaxCand) : EnsembleResults(c, <<>>) = c }

Cutoffs == {5, 7}

Mode3Ks == {1, 2}

\* a mutant: the lexical list is merged first
Mode3KeywordFirst(vector_docs, keyword_docs, k) ==
    LET merged_docs == EnsembleResults(keyword_docs, vector_docs)
    IN  SubSeq(merged_docs, 1, Min(k, Len(merged_docs)))

\* retrieval_mode_3_hybrid_no_rerank, given what the two retrievers returned
Mode3(vector_docs, keyword_docs, k) ==
    LET merged_docs == EnsembleResults(vector_docs, keyword_docs)
    IN  SubSeq(merged_docs, 1, Min(k, Len(merged_docs)))

FnFrames ==
    { [IdleFrame EXCEPT !.fn = "ensemble_results", !.vector_docs = a, !.keyword_docs = b] :
          a \in SeqsUpTo(Corpus, MaxLen), b \in SeqsUpTo(Corpus, MaxLen) }
    \cup
    { [IdleFrame EXCEPT !.fn = "rerank_documents", !.merged_docs = c,
                        !.top_k = k, !.score_threshold = t] :
          c \in CandidateLists, k \in 0..MaxCand, t \in Cutoffs }
    \cup
    \* top_k holds the k of the call
    { [IdleFrame EXCEPT !.fn = "retrieval_mode_3", !.vector_docs = a, !.keyword_docs = b,
                        !.top_k = k] :
          a \in SeqsUpTo(Corpus, MaxLen), b \in SeqsUpTo(Corpus, MaxLen), k \in Mode3Ks }

InitFn ==
    /\ EMBEDDING_MODEL = 0
    /\ VECTOR_DB = 0
    /\ RERANKER = 0
    /\ built = [emb |-> 0, db |-> 0, rr |-> 0]
    /\ oracleCalls = 0
    /\ pc = "ready"
    /\ call \in FnFrames
    /\ threads = NoThreads
    /\ ev = NoEval

ApplyEnsembleResults ==
    /\ pc = "ready"
    /\ call.fn = "ensemble_results"
    /\ call' = [call EXCEPT !.merged_docs = EnsembleResults(call.vector_docs, call.keyword_docs),
                            !.result = [NoResult EXCEPT !.kind = "returned"]]
    /\ pc' = "done"
    /\ UNCHANGED <<EMBEDDING_MODEL, VECTOR_DB, RERANKER, built, oracleCalls, threads, ev>>

ApplyRerankDocuments ==
    /\ pc = "ready"
    /\ call.fn = "rerank_documents"
    /\ \E oracle \in OracleOutcomes(Len(call.merged_docs), RERANKER) :
         LET r == RerankDocuments(call.merged_docs, call.top_k, call.score_threshold,
                                  Globals, oracleCalls, oracle)
         IN  /\ SetGlobals(r.g)
             /\ oracleCalls' = r.calls
             /\ call' = [call EXCEPT
                           !.scores = r.scores,
                           !.reranked_docs = r.ret,
                           !.result = IF r.exc = NoExc
                                      THEN [NoResult EXCEPT !.kind = "returned"]
                                      ELSE [NoResult EXCEPT !.kind = "raised", !.message = r.exc]]
    /\ pc' = "done"
    /\ UNCHANGED <<threads, ev>>

ApplyMode3 ==
    /\ pc = "ready"
    /\ call.fn = "retrieval_mode_3"
    /\ call' = [call EXCEPT
                  !.merged_docs = EnsembleResults(call.vector_docs, call.keyword_docs),
                  !.result = [NoResult EXCEPT
                                !.kind = "returned",
                                !.entries = Mode3(call.vector_docs, call.keyword_docs, call.top_k)]]
    /\ pc' = "done"
    /\ UNCHANGED <<EMBEDDING_MODEL, VECTOR_DB, RERANKER, built, oracleCalls, threads, ev>>

NextFn == ApplyEnsembleResults \/ ApplyRerankDocuments \/ ApplyMode3

SpecFn == InitFn /\ [][NextFn]_vars

----------------------------------------------------------------------------
(* The retrievers, the confidence gate and the lookup entry point *)

\* the scores the cross-encoder gives in the pipeline (0.3, 0.5, 0.8)
PipelineScoreVals == {3, 5, 8}

PipelineOracle(n, rr) ==
    { o \in OracleOutcomes(n, rr) :
        \A j \in 1..Len(o.scores) : o.scores[j] \in PipelineScoreVals }

\* the chunks held by the vector store of the running system: their trimmed
\* texts differ
StoredDocs == Corpus \ { Document(<<"a">>, [source |-> "f1"]) }

\* vector_search(query, vector_db, k): what similarity_search may hand back
VectorSearchResults(k) == SeqsUpTo(StoredDocs, Min(k, MaxRet))

\* bm25_search(query, vector_db, k); get_ok: vector_db.get() and the index
\* construction do not raise; all_docs: the corpus read from the store;
\* ranked: what the BM25 retriever ranks first
Bm25Search(get_ok, all_docs, ranked, k) ==
    IF ~get_ok THEN <<>>
    ELSE IF all_docs = {} THEN <<>>
    ELSE SubSeq(ranked, 1, Min(k, Len(ranked)))

\* a mutant of the overlay: each passage is held to the threshold on its own
Mode4OverlayPartial(reranked_docs, score_threshold) ==
    SelectSeq(reranked_docs, LAMBDA d : d.metadata.rerank_score >= score_threshold)

\* reranked_docs[0].metadata.get('rerank_score', 1.0)
TopScore(reranked_docs) ==
    IF "rerank_score" \in DOMAIN reranked_docs[1].metadata
    THEN reranked_docs[1].metadata.rerank_score
    ELSE DEFAULT_MAX_SCORE

\* a mutant: a best score equal to the threshold is rejected as well
Mode4OverlayInclusive(reranked_docs, score_threshold) ==
    IF reranked_docs # <<>> /\ TopScore(reranked_docs) <= score_threshold
    THEN <<>>
    ELSE reranked_docs

\* retrieval_mode_4_hybrid_with_rerank, lines 88-96: the whole-query overlay
Mode4Overlay(reranked_docs, score_threshold) ==
    IF reranked_docs # <<>> /\ TopScore(reranked_docs) < score_threshold
    THEN <<>>
    ELSE reranked_docs

\* a mutant: the comparison of the overlay is turned around
ThresholdOverlayAbove(reranked_docs, threshold) ==
    IF reranked_docs # <<>> /\ TopScore(reranked_docs) >= threshold
    THEN [docs |-> <<>>, rejected |-> TRUE]
    ELSE [docs |-> reranked_docs, rejected |-> FALSE]

\* evaluate_threshold, lines 98-105: the same overlay, counting the rejection
ThresholdOverlay(reranked_docs, threshold) ==
    IF reranked_docs # <<>> /\ TopScore(reranked_docs) < threshold
    THEN [docs |-> <<>>, rejected |-> TRUE]
    ELSE [docs |-> reranked_docs, rejected |-> FALSE]

\* a mutant: the entry point also applies the whole-query overlay
PolicyRerankWithOverlay(merged_docs, g, calls, oracle) ==
    LET r == RerankDocuments(merged_docs, POLICY_TOP_K, 3, g, calls, oracle)
    IN  [r EXCEPT !.ret = Mode4Overlay(r.ret, RERANK_SCORE_THRESHOLD)]

\* get_manual_hybrid_results, line 171
PolicyRerank(merged_docs, g, calls, oracle) ==
    RerankDocuments(merged_docs, POLICY_TOP_K, RERANK_SCORE_THRESHOLD, g, calls, oracle)

\* one formatted block of query_policy
PolicyEntry(i, doc) ==
    [rank |-> i,
     source |-> IF "source" \in DOMAIN doc.metadata THEN doc.metadata.source
                ELSE "unknown_file",
     content |-> Strip(doc.page_content)]

\* a mutant: no except clause
QueryPolicyResultNoCatch(exc, docs) ==
    IF exc # NoExc THEN [kind |-> "raised", entries |-> <<>>, message |-> exc]
    ELSE IF docs = <<>> THEN [kind |-> "not_found", entries |-> <<>>, message |-> NoExc]
    ELSE [kind |-> "passages",
          entries |-> [i \in 1..Len(docs) |-> PolicyEntry(i, docs[i])],
          message |-> NoExc]

\* query_policy: exc is the exception get_manual_hybrid_results raised (or
\* NoExc), docs what it returned
QueryPolicyResult(exc, docs) ==
    IF exc # NoExc THEN [kind |-> "error", entries |-> <<>>, message |-> exc]
    ELSE IF docs = <<>> THEN [kind |-> "not_found", entries |-> <<>>, message |-> NoExc]
    ELSE [kind |-> "passages",
          entries |-> [i \in 1..Len(docs) |-> PolicyEntry(i, docs[i])],
          message |-> NoExc]

\* an exception leaving the retrieval steps of fn
Raised(fn, exc) ==
    IF fn = "query_policy" THEN QueryPolicyResult(exc, <<>>)
    ELSE [kind |-> "raised", entries |-> <<>>, message |-> exc]

----------------------------------------------------------------------------
(* Spec: lookups and mode-4 retrievals, one after another *)

TopKs == {1, 3}

SweepThresholds == {-10, 5, 6, 9}

Init ==
    /\ EMBEDDING_MODEL = 0
    /\ VECTOR_DB = 0
    /\ RERANKER = 0
    /\ built = [emb |-> 0, db |-> 0, rr |-> 0]
    /\ oracleCalls = 0
    /\ pc = "idle"
    /\ call = IdleFrame
    /\ threads = NoThreads
    /\ ev = NoEval

\* query_policy(query)
CallQueryPolicy ==
    /\ pc = "idle"
    /\ oracleCalls < MaxCalls
    /\ call' = [IdleFrame EXCEPT !.fn = "query_policy", !.top_k = POLICY_TOP_K,
                                 !.score_threshold = RERANK_SCORE_THRESHOLD]
    /\ pc' = "get_vector_db"
    /\ UNCHANGED <<EMBEDDING_MODEL, VECTOR_DB, RERANKER, built, oracleCalls, threads, ev>>

\* retrieval_mode_4_hybrid_with_rerank(query, k=10, top_k, score_threshold)
CallMode4 ==
    /\ pc = "idle"
    /\ oracleCalls < MaxCalls
    /\ \E k \in TopKs, t \in SweepThresholds :
         call' = [IdleFrame EXCEPT !.fn = "mode4", !.top_k = k, !.score_threshold = t]
    /\ pc' = "get_vector_db"
    /\ UNCHANGED <<EMBEDDING_MODEL, VECTOR_DB, RERANKER, built, oracleCalls, threads, ev>>

\* the retrieval of one test case inside evaluate_threshold(threshold, ..., top_k=3)
CallEvaluateThreshold ==
    /\ pc = "idle"
    /\ oracleCalls < MaxCalls
    /\ \E t \in SweepThresholds :
         call' = [IdleFrame EXCEPT !.fn = "evaluate_threshold", !.top_k = DEFAULT_TOP_K,
                                   !.score_threshold = t]
    /\ pc' = "get_vector_db"
    /\ UNCHANGED <<EMBEDDING_MODEL, VECTOR_DB, RERANKER, built, oracleCalls, threads, ev>>

\* vector_db = get_vector_db()
StepGetVectorDb ==
    /\ pc = "get_vector_db"
    /\ \E env \in [dir_exists : BOOLEAN, emb_ok : BOOLEAN, chroma_ok : BOOLEAN] :
         LET r == GetVectorDb(Globals, env)
         IN  /\ SetGlobals(r.g)
             /\ IF r.exc = NoExc
                THEN /\ call' = [call EXCEPT !.stage = "get_vector_db"]
                     /\ pc' = "vector_search"
                ELSE /\ call' = [call EXCEPT !.stage = "get_vector_db", !.exc = r.exc,
                                             !.result = Raised(call.fn, r.exc)]
                     /\ pc' = "done"
    /\ UNCHANGED <<oracleCalls, threads, ev>>

\* vector_docs = vector_search(query, vector_db, k=10)
StepVectorSearch ==
    /\ pc = "vector_search"
    /\ \/ \E v \in VectorSearchResults(POLICY_K) :
            /\ call' = [call EXCEPT !.stage = "vector_search", !.vector_docs = v]
            /\ pc' = "bm25_search"
       \/ /\ call' = [call EXCEPT !.stage = "vector_search", !.exc = "SearchError",
                                  !.result = Raised(call.fn, "SearchError")]
          /\ pc' = "done"
    /\ UNCHANGED <<EMBEDDING_MODEL, VECTOR_DB, RERANKER, built, oracleCalls, threads, ev>>

\* keyword_docs = bm25_search(query, vector_db, k=10)
\* merged_docs = ensemble_results(vector_docs, keyword_docs)
StepBm25AndEnsemble ==
    /\ pc = "bm25_search"
    /\ \E get_ok \in BOOLEAN, ranked \in SeqsUpTo(StoredDocs, MaxRet) :
         LET keyword_docs == Bm25Search(get_ok, StoredDocs, ranked, POLICY_K)
         IN  call' = [call EXCEPT !.stage = "ensemble_results",
                                  !.bm25_failed = ~get_ok,
                                  !.vector_docs = <<>>,
                                  !.merged_docs = EnsembleResults(call.vector_docs, keyword_docs)]
    /\ pc' = "rerank"
    /\ UNCHANGED <<EMBEDDING_MODEL, VECTOR_DB, RERANKER, built, oracleCalls, threads, ev>>

\* what fn does with the reranked documents
Finish(fn, reranked_docs, threshold) ==
    IF fn = "query_policy" THEN QueryPolicyResult(NoExc, reranked_docs)
    ELSE IF fn = "mode4"
    THEN [kind |-> "returned", entries |-> Mode4Overlay(reranked_docs, threshold),
          message |-> NoExc]
    ELSE [kind |-> "returned", entries |-> ThresholdOverlay(reranked_docs, threshold).docs,
          message |-> NoExc]

\* rerank_documents(...) and the rest of the caller
StepRerankAndFinish ==
    /\ pc = "rerank"
    /\ \E oracle \in PipelineOracle(Len(call.merged_docs), RERANKER) :
         LET r == IF call.fn = "query_policy"
                  THEN PolicyRerank(call.merged_docs, Globals, oracleCalls, oracle)
                  ELSE RerankDocuments(call.merged_docs, call.top_k, DEFAULT_SCORE_THRESHOLD,
                                       Globals, oracleCalls, oracle)
         IN  /\ SetGlobals(r.g)
             /\ oracleCalls' = r.calls
             /\ call' = [call EXCEPT
                           !.stage = "rerank_documents",
                           !.rr_before = RERANKER,
                           !.calls_before = oracleCalls,
                           !.scores = r.scores,
                           !.exc = r.exc,
                           !.reranked_docs = r.ret,
                           !.rejected = /\ call.fn = "evaluate_threshold"
                                        /\ r.exc = NoExc
                                        /\ ThresholdOverlay(r.ret, call.score_threshold).rejected,
                           !.result = IF r.exc = NoExc
                                      THEN Finish(call.fn, r.ret, call.score_threshold)
                                      ELSE Raised(call.fn, r.exc)]
    /\ pc' = "done"
    /\ UNCHANGED <<threads, ev>>

\* the caller takes the result
Return ==
    /\ pc = "done"
    /\ call' = IdleFrame
    /\ pc' = "idle"
    /\ UNCHANGED <<EMBEDDING_MODEL, VECTOR_DB, RERANKER, built, oracleCalls, threads, ev>>

Next ==
    \/ CallQueryPolicy
    \/ CallMode4
    \/ CallEvaluateThreshold
    \/ StepGetVectorDb
    \/ StepVectorSearch
    \/ StepBm25AndEnsemble
    \/ StepRerankAndFinish
    \/ Return

Spec == Init /\ [][Next]_vars

----------------------------------------------------------------------------
(* SpecConc: several callers inside the lazy getters at once.  A caller's   *)
(* position is the statement it is about to execute; another caller may run *)
(* between any two statements.                                              *)

Threads == 1..NThreads

Getters == {"get_embedding_model", "get_vector_db", "get_reranker"}

FirstLabel(fn) ==
    IF fn = "get_embedding_model" THEN "emb_check"
    ELSE IF fn = "get_vector_db" THEN "db_check"
    ELSE "rr_check"

At(t, label) == threads[t].pc = label

Goto(t, label) == threads' = [threads EXCEPT ![t].pc = label]

UnchangedSequential == UNCHANGED <<oracleCalls, pc, call, ev>>

InitConc == Init

\* a caller enters one of the getters
ThreadCall(t) ==
    /\ At(t, "idle")
    /\ \E fn \in Getters :
         threads' = [threads EXCEPT ![t] = [fn |-> fn, pc |-> FirstLabel(fn),
                                            obj |-> 0, ret |-> 0]]
    /\ UNCHANGED <<EMBEDDING_MODEL, VECTOR_DB, RERANKER, built>>
    /\ UnchangedSequential

\* if _EMBEDDING_MODEL is None:
EmbCheck(t) ==
    /\ At(t, "emb_check")
    /\ Goto(t, IF EMBEDDING_MODEL = 0 THEN "emb_construct" ELSE "emb_return")
    /\ UNCHANGED <<EMBEDDING_MODEL, VECTOR_DB, RERANKER, built>>
    /\ UnchangedSequential

\* HuggingFaceEmbeddings(...)
EmbConstruct(t) ==
    /\ At(t, "emb_construct")
    /\ built' = [built EXCEPT !.emb = @ + 1]
    /\ threads' = [threads EXCEPT ![t].pc = "emb_assign", ![t].obj = built.emb + 1]
    /\ UNCHANGED <<EMBEDDING_MODEL, VECTOR_DB, RERANKER>>
    /\ UnchangedSequential

\* _EMBEDDING_MODEL = ...
EmbAssign(t) ==
    /\ At(t, "emb_assign")
    /\ EMBEDDING_MODEL' = threads[t].obj
    /\ Goto(t, "emb_return")
    /\ UNCHANGED <<VECTOR_DB, RERANKER, built>>
    /\ UnchangedSequential

\* return _EMBEDDING_MODEL (to the caller, or into the Chroma(...) call)
EmbReturn(t) ==
    /\ At(t, "emb_return")
    /\ IF threads[t].fn = "get_vector_db"
       THEN threads' = [threads EXCEPT ![t].pc = "db_construct", ![t].obj = EMBEDDING_MODEL]
       ELSE threads' = [threads EXCEPT ![t].pc = "idle", ![t].ret = EMBEDDING_MODEL]
    /\ UNCHANGED <<EMBEDDING_MODEL, VECTOR_DB, RERANKER, built>>
    /\ UnchangedSequential

\* if _VECTOR_DB is None:
DbCheck(t) ==
    /\ At(t, "db_check")
    /\ Goto(t, IF VECTOR_DB = 0 THEN "db_exists" ELSE "db_return")
    /\ UNCHANGED <<EMBEDDING_MODEL, VECTOR_DB, RERANKER, built>>
    /\ UnchangedSequential

\* if not PERSIST_DIRECTORY.exists(): raise FileNotFoundError
DbExists(t) ==
    /\ At(t, "db_exists")
    /\ \E dir_exists \in BOOLEAN :
         Goto(t, IF dir_exists THEN "emb_check" ELSE "idle")
    /\ UNCHANGED <<EMBEDDING_MODEL, VECTOR_DB, RERANKER, built>>
    /\ UnchangedSequential

\* Chroma(..., embedding_function=<the embedding model>, ...)
DbConstruct(t) ==
    /\ At(t, "db_construct")
    /\ built' = [built EXCEPT !.db = @ + 1]
    /\ threads' = [threads EXCEPT ![t].pc = "db_assign", ![t].obj = built.db + 1]
    /\ UNCHANGED <<EMBEDDING_MODEL, VECTOR_DB, RERANKER>>
    /\ UnchangedSequential

\* _VECTOR_DB = ...
DbAssign(t) ==
    /\ At(t, "db_assign")
    /\ VECTOR_DB' = threads[t].obj
    /\ Goto(t, "db_return")
    /\ UNCHANGED <<EMBEDDING_MODEL, RERANKER, built>>
    /\ UnchangedSequential

\* return _VECTOR_DB
DbReturn(t) ==
    /\ At(t, "db_return")
    /\ threads' = [threads EXCEPT ![t].pc = "idle", ![t].ret = VECTOR_DB]
    /\ UNCHANGED <<EMBEDDING_MODEL, VECTOR_DB, RERANKER, built>>
    /\ UnchangedSequential

\* if _RERANKER is None:
RrCheck(t) ==
    /\ At(t, "rr_check")
    /\ Goto(t, IF RERANKER = 0 THEN "rr_construct" ELSE "rr_return")
    /\ UNCHANGED <<EMBEDDING_MODEL, VECTOR_DB, RERANKER, built>>
    /\ UnchangedSequential

\* HuggingFaceCrossEncoder(...)
RrConstruct(t) ==
    /\ At(t, "rr_construct")
    /\ built' = [built EXCEPT !.rr = @ + 1]
    /\ threads' = [threads EXCEPT ![t].pc = "rr_assign", ![t].obj = built.rr + 1]
    /\ UNCHANGED <<EMBEDDING_MODEL, VECTOR_DB, RERANKER>>
    /\ UnchangedSequential

\* _RERANKER = ...
RrAssign(t) ==
    /\ At(t, "rr_assign")
    /\ RERANKER' = threads[t].obj
    /\ Goto(t, "rr_return")
    /\ UNCHANGED <<EMBEDDING_MODEL, VECTOR_DB, built>>
    /\ UnchangedSequential

\* return _RERANKER
RrReturn(t) ==
    /\ At(t, "rr_return")
    /\ threads' = [threads EXCEPT ![t].pc = "idle", ![t].ret = RERANKER]
    /\ UNCHANGED <<EMBEDDING_MODEL, VECTOR_DB, RERANKER, built>>
    /\ UnchangedSequential

NextConc ==
    \E t \in Threads :
        \/ ThreadCall(t)
        \/ EmbCheck(t) \/ EmbConstruct(t) \/ EmbAssign(t) \/ EmbReturn(t)
        \/ DbCheck(t) \/ DbExists(t) \/ DbConstruct(t) \/ DbAssign(t) \/ DbReturn(t)
        \/ RrCheck(t) \/ RrConstruct(t) \/ RrAssign(t) \/ RrReturn(t)

SpecConc == InitConc /\ [][NextConc]_vars

\* C8: each of the embedding model, the vector-index handle and the
\* cross-encoder is constructed at most once per process, also when several
\* callers trigger first use at the same time.
C8_ConstructedAtMostOnce ==
    /\ built.emb <= 1
    /\ built.db <= 1
    /\ built.rr <= 1

----------------------------------------------------------------------------
(* Metric values are exact fractions <<numerator, denominator>> in lowest    *)
(* terms; NDCG, whose discounts are irrational, is rounded down to           *)
(* thousandths.                                                              *)

RECURSIVE Gcd(_, _)
Gcd(a, b) == IF b = 0 THEN a ELSE Gcd(b, a % b)

Frac(n, d) == LET g == Gcd(n, d) IN <<n \div g, d \div g>>

Zero == <<0, 1>>

One == <<1, 1>>

AddFrac(x, y) == Frac(x[1] * y[2] + y[1] * x[2], x[2] * y[2])

RECURSIVE SumFrac(_)
SumFrac(xs) == IF xs = <<>> THEN Zero ELSE AddFrac(Head(xs), SumFrac(Tail(xs)))

\* sum(scores) / len(scores) if scores else 0.0
Mean(xs) ==
    IF xs = <<>> THEN Zero
    ELSE LET t == SumFrac(xs) IN Frac(t[1], t[2] * Len(xs))

Prefix(xs, k) == SubSeq(xs, 1, Min(k, Len(xs)))

SeqMax(ks) == CHOOSE m \in { ks[i] : i \in 1..Len(ks) } : \A i \in 1..Len(ks) : ks[i] <= m

SeqMin(ks) == CHOOSE m \in { ks[i] : i \in 1..Len(ks) } : \A i \in 1..Len(ks) : m <= ks[i]

----------------------------------------------------------------------------
(* The metric calculators.  A retrieved context is given with the verdict   *)
(* the relevance judge returns for it in the test case at hand: ctx.rel.    *)

\* llm_judge_relevance(question, ground_truth, retrieved_context, llm, ...)
JudgeRelevance(ctx) == ctx.rel

\* a mutant: the n-th reference context is matched by the n-th candidate only
CalculateRecallPaired(retrieved_contexts, n_gt_contexts, k) ==
    IF n_gt_contexts = 0 THEN Zero
    ELSE LET contexts_to_check == Prefix(retrieved_contexts, k)
             matches == Cardinality({ g \in 1..n_gt_contexts :
                            /\ g <= Len(contexts_to_check)
                            /\ JudgeRelevance(contexts_to_check[g]) })
         IN  Frac(matches, n_gt_contexts)

\* calculate_recall(retrieved_contexts, ..., ground_truth_contexts, llm, k)
CalculateRecall(retrieved_contexts, n_gt_contexts, k) ==
    IF n_gt_contexts = 0 THEN Zero
    ELSE LET contexts_to_check == Prefix(retrieved_contexts, k)
             matches == Cardinality({ g \in 1..n_gt_contexts :
                            \E j \in 1..Len(contexts_to_check) :
                                JudgeRelevance(contexts_to_check[j]) })
         IN  Frac(matches, n_gt_contexts)

\* calculate_precision
CalculatePrecision(retrieved_contexts) ==
    IF retrieved_contexts = <<>> THEN Zero
    ELSE Frac(Cardinality({ j \in 1..Len(retrieved_contexts) :
                              JudgeRelevance(retrieved_contexts[j]) }),
              Len(retrieved_contexts))

\* a mutant: the reciprocal rank of the last relevant candidate
CalculateMrrLast(retrieved_contexts) ==
    LET hits == { j \in 1..Len(retrieved_contexts) : JudgeRelevance(retrieved_contexts[j]) }
    IN  IF hits = {} THEN Zero
        ELSE Frac(1, CHOOSE j \in hits : \A h \in hits : j >= h)

\* calculate_mrr
CalculateMrr(retrieved_contexts) ==
    LET hits == { j \in 1..Len(retrieved_contexts) : JudgeRelevance(retrieved_contexts[j]) }
    IN  IF hits = {} THEN Zero
        ELSE Frac(1, CHOOSE j \in hits : \A h \in hits : j <= h)

\* 1000 / log2(rank + 1), rounded
Discount(rank) ==
    CASE rank = 1 -> 1000
      [] rank = 2 -> 631
      [] rank = 3 -> 500
      [] rank = 4 -> 431
      [] OTHER -> 387

RECURSIVE SumDiscount(_)
SumDiscount(ranks) ==
    IF ranks = {} THEN 0
    ELSE LET r == CHOOSE x \in ranks : TRUE IN Discount(r) + SumDiscount(ranks \ {r})

\* calculate_ndcg
CalculateNdcg(retrieved_contexts) ==
    LET hits == { j \in 1..Len(retrieved_contexts) : JudgeRelevance(retrieved_contexts[j]) }
        dcg == SumDiscount(hits)
        idcg == SumDiscount(1..Cardinality(hits))
    IN  IF idcg > 0 THEN Frac((1000 * dcg) \div idcg, 1000) ELSE Zero

----------------------------------------------------------------------------
(* SpecEval: one batch of evaluate_retrieval_mode or of evaluate_threshold  *)

KValueChoices == { <<1, 2>>, <<3, 5, 10>> }

\* lengths of ground_truth_context: 0 marks an unanswerable case
ContextCounts == {0, 1, 2}

TestSets == SeqsUpTo([n_ctx : ContextCounts], MaxCases)

KSet(ks) == { ks[i] : i \in 1..Len(ks) }

\* what a retrieval function may hand back: passages, best score first
RetrievedLists ==
    { d \in SeqsUpTo([rel : BOOLEAN, metadata : [rerank_score : {5, 8}]], MaxRetrieved) :
        \A a, b \in 1..Len(d) :
            a < b => d[a].metadata.rerank_score >= d[b].metadata.rerank_score }

RetrievalOutcomes ==
    { [raised |-> TRUE, docs |-> <<>>] }
    \cup { [raised |-> FALSE, docs |-> d] : d \in RetrievedLists }

EvalFrame(harness, test_data, k_values, warmup, threshold) ==
    [pc |-> IF warmup THEN "warmup" ELSE "loop",
     harness |-> harness,
     test_data |-> test_data,
     k_values |-> k_values,
     warmup |-> warmup,
     threshold |-> threshold,
     i |-> 0,
     log |-> <<>>,
     answerable_queries |-> 0,
     unanswerable_queries |-> 0,
     rejected_queries |-> 0,
     failed_queries |-> 0,
     recall_scores |-> [k \in KSet(k_values) |-> <<>>],
     precision_scores |-> <<>>,
     mrr_scores |-> <<>>,
     ndcg_scores |-> <<>>,
     noise_robustness_scores |-> <<>>,
     avg_recall |-> [k \in KSet(k_values) |-> Zero],
     avg_precision |-> Zero,
     avg_mrr |-> Zero,
     avg_ndcg |-> Zero,
     noise_robustness |-> Zero]

InitEval ==
    /\ EMBEDDING_MODEL = 0
    /\ VECTOR_DB = 0
    /\ RERANKER = 0
    /\ built = [emb |-> 0, db |-> 0, rr |-> 0]
    /\ oracleCalls = 0
    /\ pc = "idle"
    /\ call = IdleFrame
    /\ threads = NoThreads
    /\ \E test_data \in TestSets, k_values \in KValueChoices :
         \/ \E warmup \in BOOLEAN :
              ev = EvalFrame("evaluate_retrieval_mode", test_data, k_values, warmup, 0)
         \/ \E threshold \in SweepThresholds :
              ev = EvalFrame("evaluate_threshold", test_data, k_values, FALSE, threshold)

\* is_answerable = bool(ground_truth_contexts), and the two counters
CountCase(e, item) ==
    IF item.n_ctx > 0
    THEN [e EXCEPT !.answerable_queries = @ + 1]
    ELSE [e EXCEPT !.unanswerable_queries = @ + 1]

AppendRecalls(e, value_of) ==
    [e EXCEPT !.recall_scores = [k \in DOMAIN e.recall_scores |->
                                    Append(e.recall_scores[k], value_of[k])]]

\* a mutant: a failed case is counted and records nothing
OnRetrievalErrorSkip(e, item) == [e EXCEPT !.failed_queries = @ + 1]

\* the except branch of evaluate_retrieval_mode (lines 363-374)
OnRetrievalError(e, item) ==
    LET f == [e EXCEPT !.failed_queries = @ + 1]
    IN  IF item.n_ctx > 0
        THEN [AppendRecalls(f, [k \in DOMAIN f.recall_scores |-> Zero]) EXCEPT
                !.precision_scores = Append(@, Zero),
                !.mrr_scores = Append(@, Zero),
                !.ndcg_scores = Append(@, Zero)]
        ELSE [f EXCEPT !.noise_robustness_scores = Append(@, Zero)]

\* a mutant: a failed case records a zero in the lists of both groups
OnThresholdErrorBoth(e, item) ==
    LET f == [e EXCEPT !.failed_queries = @ + 1]
    IN  [AppendRecalls(f, [k \in DOMAIN f.recall_scores |-> Zero]) EXCEPT
            !.noise_robustness_scores = Append(@, Zero)]

\* the except branch of evaluate_threshold (lines 143-150)
OnThresholdError(e, item) ==
    LET f == [e EXCEPT !.failed_queries = @ + 1]
    IN  IF item.n_ctx > 0
        THEN AppendRecalls(f, [k \in DOMAIN f.recall_scores |-> Zero])
        ELSE [f EXCEPT !.noise_robustness_scores = Append(@, Zero)]

\* a mutant: every retrieved candidate counts, whatever its rank
NoiseScoreAllRanks(retrieved_contexts, k_values) ==
    IF \E j \in 1..Len(retrieved_contexts) : JudgeRelevance(retrieved_contexts[j])
    THEN Zero ELSE One

\* the noise robustness of an unanswerable case
NoiseScore(retrieved_contexts, k_values) ==
    LET noise_k == IF k_values # <<>> THEN SeqMin(k_values) ELSE Len(retrieved_contexts)
        has_support == \E j \in 1..Len(Prefix(retrieved_contexts, noise_k)) :
                           JudgeRelevance(retrieved_contexts[j])
    IN  IF has_support THEN Zero ELSE One

\* the body of the try of evaluate_retrieval_mode (lines 312-361)
ScoreModeCase(e, item, docs) ==
    IF item.n_ctx > 0
    THEN [AppendRecalls(e, [k \in DOMAIN e.recall_scores |->
                               CalculateRecall(docs, item.n_ctx, k)]) EXCEPT
            !.precision_scores = Append(@, CalculatePrecision(docs)),
            !.mrr_scores = Append(@, CalculateMrr(docs)),
            !.ndcg_scores = Append(@, CalculateNdcg(docs))]
    ELSE [e EXCEPT !.noise_robustness_scores = Append(@, NoiseScore(docs, e.k_values))]

\* the body of the try of evaluate_threshold (lines 91-138)
ScoreThresholdCase(e, item, reranked_docs) ==
    LET o == ThresholdOverlay(reranked_docs, e.threshold)
        f == [e EXCEPT !.rejected_queries = IF o.rejected THEN @ + 1 ELSE @]
    IN  IF item.n_ctx > 0
        THEN AppendRecalls(f, [k \in DOMAIN f.recall_scores |->
                                  CalculateRecall(o.docs, item.n_ctx, k)])
        ELSE [f EXCEPT !.noise_robustness_scores = Append(@, NoiseScore(o.docs, f.k_values))]

\* one pass of the loop over test_data, for what the retrieval did
EvalIteration(e, item, outcome) ==
    LET c == CountCase(e, item)
        d == IF e.harness = "evaluate_retrieval_mode"
             THEN IF outcome.raised THEN OnRetrievalError(c, item)
                  ELSE ScoreModeCase(c, item, outcome.docs)
             ELSE IF outcome.raised THEN OnThresholdError(c, item)
                  ELSE ScoreThresholdCase(c, item, outcome.docs)
    IN  [d EXCEPT !.i = @ + 1, !.log = Append(@, [raised |-> outcome.raised])]

\* the warm-up query of evaluate_retrieval_mode: whatever happens is dropped
EvalWarmup ==
    /\ ev.pc = "warmup"
    /\ ev' = [ev EXCEPT !.pc = "loop"]
    /\ UNCHANGED <<EMBEDDING_MODEL, VECTOR_DB, RERANKER, built, oracleCalls, pc, call, threads>>

\* for i, item in enumerate(test_data, 1): ...
EvalCase ==
    /\ ev.pc = "loop"
    /\ ev.i < Len(ev.test_data)
    /\ \E outcome \in RetrievalOutcomes :
         ev' = EvalIteration(ev, ev.test_data[ev.i + 1], outcome)
    /\ UNCHANGED <<EMBEDDING_MODEL, VECTOR_DB, RERANKER, built, oracleCalls, pc, call, threads>>

\* the averages after the loop
EvalAggregate ==
    /\ ev.pc = "loop"
    /\ ev.i = Len(ev.test_data)
    /\ ev' = [ev EXCEPT
                !.pc = "done",
                !.avg_recall = [k \in DOMAIN ev.recall_scores |-> Mean(ev.recall_scores[k])],
                !.avg_precision = Mean(ev.precision_scores),
                !.avg_mrr = Mean(ev.mrr_scores),
                !.avg_ndcg = Mean(ev.ndcg_scores),
                !.noise_robustness = Mean(ev.noise_robustness_scores)]
    /\ UNCHANGED <<EMBEDDING_MODEL, VECTOR_DB, RERANKER, built, oracleCalls, pc, call, threads>>

NextEval == EvalWarmup \/ EvalCase \/ EvalAggregate

SpecEval == InitEval /\ [][NextEval]_vars

\* how many of the first j cases are answerable / unanswerable
AnswerableUpTo(j) == Cardinality({ m \in 1..j : ev.test_data[m].n_ctx > 0 })

UnanswerableUpTo(j) == Cardinality({ m \in 1..j : ev.test_data[m].n_ctx = 0 })

HasZeroAt(scores, n) == Len(scores) >= n /\ scores[n] = Zero

\* C10: a test case whose retrieval raises is isolated: the failure counter
\* grows by one, an answerable case records 0 for every Recall@k (and for
\* precision, MRR and NDCG where the harness keeps them), an unanswerable case
\* records 0 for noise robustness, and the batch goes on to the end of the
\* test set.
C10_FailedCaseIsolated ==
    /\ ev.failed_queries = Cardinality({ j \in 1..ev.i : ev.log[j].raised })
    /\ \A j \in 1..ev.i :
         ev.log[j].raised =>
            IF ev.test_data[j].n_ctx > 0
            THEN /\ \A k \in DOMAIN ev.recall_scores :
                       HasZeroAt(ev.recall_scores[k], AnswerableUpTo(j))
                 /\ ev.harness = "evaluate_retrieval_mode" =>
                       /\ HasZeroAt(ev.precision_scores, AnswerableUpTo(j))
                       /\ HasZeroAt(ev.mrr_scores, AnswerableUpTo(j))
                       /\ HasZeroAt(ev.ndcg_scores, AnswerableUpTo(j))
            ELSE HasZeroAt(ev.noise_robustness_scores, UnanswerableUpTo(j))
    /\ ev.pc \in {"warmup", "loop", "done"}
    /\ ev.i <= Len(ev.test_data)
    /\ Len(ev.log) = ev.i
    /\ ev.pc = "done" => ev.i = Len(ev.test_data)

C10_Witness ==
    /\ ev.pc = "done"
    /\ ev.harness = "evaluate_retrieval_mode"
    /\ Len(ev.test_data) = 2
    /\ ev.test_data[1].n_ctx > 0
    /\ ev.log[1].raised
    /\ ~ev.log[2].raised
    /\ ev.test_data[2].n_ctx > 0
    /\ ev.mrr_scores = <<Zero, One>>
    /\ ev.failed_queries = 1

\* C11: the aggregates are means over their own subsets: after any number of
\* evaluated cases, failing ones included, each answerable case has
\* contributed exactly one value to every Recall@k list (and to the precision,
\* MRR and NDCG lists of evaluate_retrieval_mode) and none to the
\* noise-robustness list, each unanswerable case exactly one value to the
\* noise-robustness list and none to the others, the two counters add up to
\* the number of cases seen (total_queries at the end), and every average is
\* the mean of its own list.
C11_SubsetsPartitionCases ==
    /\ ev.answerable_queries = AnswerableUpTo(ev.i)
    /\ ev.unanswerable_queries = UnanswerableUpTo(ev.i)
    /\ ev.answerable_queries + ev.unanswerable_queries = ev.i
    /\ \A k \in DOMAIN ev.recall_scores :
          Len(ev.recall_scores[k]) = AnswerableUpTo(ev.i)
    /\ Len(ev.noise_robustness_scores) = UnanswerableUpTo(ev.i)
    /\ LET n == IF ev.harness = "evaluate_retrieval_mode" THEN AnswerableUpTo(ev.i) ELSE 0
       IN  /\ Len(ev.precision_scores) = n
           /\ Len(ev.mrr_scores) = n
           /\ Len(ev.ndcg_scores) = n
    /\ ev.pc = "done" =>
          /\ ev.answerable_queries + ev.unanswerable_queries = Len(ev.test_data)
          /\ \A k \in DOMAIN ev.recall_scores :
                ev.avg_recall[k] = Mean(ev.recall_scores[k])
          /\ ev.noise_robustness = Mean(ev.noise_robustness_scores)
          /\ ev.avg_precision = Mean(ev.precision_scores)
          /\ ev.avg_mrr = Mean(ev.mrr_scores)
          /\ ev.avg_ndcg = Mean(ev.ndcg_scores)

C11_Witness ==
    /\ ev.pc = "done"
    /\ ev.harness = "evaluate_threshold"
    /\ Len(ev.test_data) = 2
    /\ ev.test_data[1].n_ctx > 0
    /\ ev.test_data[2].n_ctx = 0
    /\ ev.log[1].raised
    /\ ~ev.log[2].raised
    /\ ev.noise_robustness = One
    /\ \A k \in DOMAIN ev.recall_scores : ev.avg_recall[k] = Zero

----------------------------------------------------------------------------
(* The relevance judge on texts, and the calls the calculators make to it   *)

\* the length above which the fallback takes a candidate for relevant
LONG_CONTEXT_LEN == 50

\* the clauses of the reference answer the fallback looks at
FALLBACK_CLAUSES == 3

\* the fullwidth comma (U+FF0C) the fallback splits the reference answer on,
\* written here as the ASCII comma
Comma == ","

\* the answers "shi" (U+662F, yes) and "fou" (U+5426, no) of the judge, written
\* here as one ASCII character each
Shi == "+"

Fou == "-"

\* x in y, for strings
IsSubstring(x, y) ==
    \E i \in 0..(Len(y) - Len(x)) : SubSeq(y, i + 1, i + Len(x)) = x

\* str.lower(), on the letters the answers are written in
LowerChar(c) ==
    CASE c = "Y" -> "y"
      [] c = "E" -> "e"
      [] c = "S" -> "s"
      [] c = "N" -> "n"
      [] c = "O" -> "o"
      [] OTHER -> c

Lower(s) == [i \in 1..Len(s) |-> LowerChar(s[i])]

\* str.split(sep) for a one-character separator: acc holds the finished
\* pieces, cur the piece being read
RECURSIVE SplitFrom(_, _, _)
SplitFrom(s, acc, cur) ==
    IF s = <<>> THEN Append(acc, cur)
    ELSE IF Head(s) = Comma THEN SplitFrom(Tail(s), Append(acc, cur), <<>>)
    ELSE SplitFrom(Tail(s), acc, Append(cur, Head(s)))

Split(s) == SplitFrom(s, <<>>, <<>>)

\* a mutant: the fallback of an unanswerable case measures the untrimmed text
JudgeFallbackUntrimmed(ground_truth, retrieved_context, is_unanswerable) ==
    IF is_unanswerable
    THEN Len(retrieved_context) > LONG_CONTEXT_LEN
    ELSE \/ IsSubstring(ground_truth, retrieved_context)
         \/ LET keywords == Prefix(Split(ground_truth), FALLBACK_CLAUSES)
            IN  \E n \in 1..Len(keywords) : IsSubstring(keywords[n], retrieved_context)

\* the except branch of llm_judge_relevance
JudgeFallback(ground_truth, retrieved_context, is_unanswerable) ==
    IF is_unanswerable
    THEN Len(Strip(retrieved_context)) > LONG_CONTEXT_LEN
    ELSE \/ IsSubstring(ground_truth, retrieved_context)
         \/ LET keywords == Prefix(Split(ground_truth), FALLBACK_CLAUSES)
            IN  \E n \in 1..Len(keywords) : IsSubstring(keywords[n], retrieved_context)

\* what llm.invoke does: it answers with a text, or raises
LlmOutcomes ==
    { [raises |-> FALSE, content |-> a] :
        a \in { <<Shi>>, <<Fou>>, <<" ", "Y", "e", "s">>, <<"n", "o">> } }
    \cup { [raises |-> TRUE, content |-> <<>>] }

\* llm_judge_relevance(question, ground_truth, retrieved_context, llm, is_unanswerable)
LlmJudgeRelevance(ground_truth, retrieved_context, is_unanswerable, llm) ==
    IF llm.raises
    THEN [verdict |-> JudgeFallback(ground_truth, retrieved_context, is_unanswerable),
          exc |-> NoExc, fell_back |-> TRUE]
    ELSE LET answer == Strip(llm.content)
         IN  [verdict |-> \/ IsSubstring(<<Shi>>, answer)
                          \/ IsSubstring(<<"y", "e", "s">>, Lower(answer)),
              exc |-> NoExc, fell_back |-> FALSE]

\* retrieved_contexts[:k] as a number of candidates
RecallTopAll(n_retrieved, k) == n_retrieved

\* a mutant: a k beyond the end of the list selects nothing
RecallTopWithin(n_retrieved, k) == IF k <= n_retrieved THEN k ELSE 0

RecallTop(n_retrieved, k) == Min(k, n_retrieved)

\* the inner loop of calculate_recall from candidate j on: does the reference
\* context g match, and which (g, j) pairs was the judge asked about
RECURSIVE RecallInner(_, _, _, _)
RecallInner(g, j, top, verdict) ==
    IF j > top THEN [matched |-> FALSE, trace |-> <<>>]
    ELSE IF verdict[g][j] THEN [matched |-> TRUE, trace |-> << <<g, j>> >>]
    ELSE LET r == RecallInner(g, j + 1, top, verdict)
         IN  [matched |-> r.matched, trace |-> << <<g, j>> >> \o r.trace]

\* the outer loop of calculate_recall from reference context g on
RECURSIVE RecallOuter(_, _, _, _)
RecallOuter(g, n_gt_contexts, top, verdict) ==
    IF g > n_gt_contexts THEN [matches |-> 0, trace |-> <<>>]
    ELSE LET a == RecallInner(g, 1, top, verdict)
             r == RecallOuter(g + 1, n_gt_contexts, top, verdict)
         IN  [matches |-> (IF a.matched THEN 1 ELSE 0) + r.matches,
              trace |-> a.trace \o r.trace]

\* calculate_recall with the answer of the judge for every pair it may ask
CalculateRecallCalls(n_retrieved, n_gt_contexts, k, verdict) ==
    IF n_gt_contexts = 0 THEN [value |-> Zero, trace |-> <<>>]
    ELSE LET r == RecallOuter(1, n_gt_contexts, RecallTop(n_retrieved, k), verdict)
         IN  [value |-> Frac(r.matches, n_gt_contexts), trace |-> r.trace]

\* the loop over retrieved_contexts[:noise_k] with its break: the candidates
\* the judge was asked about
RECURSIVE NoiseLoop(_, _, _)
NoiseLoop(j, noise_k, verdict) ==
    IF j > Min(noise_k, Len(verdict)) THEN <<>>
    ELSE IF verdict[j] THEN <<j>>
    ELSE <<j>> \o NoiseLoop(j + 1, noise_k, verdict)

----------------------------------------------------------------------------
(* SpecJudge: llm_judge_relevance, calculate_recall and the noise-robustness *)
(* block called on their own                                                 *)

RECURSIVE Repeat(_, _)
Repeat(c, n) == IF n = 0 THEN <<>> ELSE <<c>> \o Repeat(c, n - 1)

\* retrieved texts: short ones, and texts around the fallback's length bound
JudgeContexts ==
    { <<"x", "a", "x">>,
      <<"b">>,
      <<"d">>,
      Repeat("x", LONG_CONTEXT_LEN),
      Repeat("x", LONG_CONTEXT_LEN + 1),
      <<" ">> \o Repeat("x", LONG_CONTEXT_LEN) \o <<" ">> }

\* reference answers: one clause, two clauses, four clauses, one that occurs
\* in no text, one that ends with a comma, and the empty one
JudgeAnswers ==
    { <<"a">>,
      <<"c", Comma, "b">>,
      <<"c", Comma, "e", Comma, "f", Comma, "d">>,
      <<"q">>,
      <<"q", Comma>>,
      <<>> }

NoiseContexts ==
    { <<"b">>, Repeat("x", LONG_CONTEXT_LEN + 1), <<" ">> \o Repeat("x", LONG_CONTEXT_LEN) \o <<" ">> }

NoiseLlmOutcomes ==
    { [raises |-> FALSE, content |-> <<Shi>>],
      [raises |-> FALSE, content |-> <<Fou>>],
      [raises |-> TRUE, content |-> <<>>] }

\* the lengths of the rankings whose rank metrics are computed
RankedLengths == 0..5

JudgeIdle ==
    [fn |-> "none", ground_truth |-> <<>>, retrieved_context |-> <<>>,
     is_unanswerable |-> FALSE, llm |-> [raises |-> FALSE, content |-> <<>>],
     retrieved_contexts |-> <<>>, llms |-> <<>>, k_values |-> <<>>,
     n_retrieved |-> 0, n_gt_contexts |-> 0, k |-> 0, verdict |-> <<>>,
     result |-> [kind |-> "pending"]]

JudgeFrames ==
    { [JudgeIdle EXCEPT !.fn = "llm_judge_relevance", !.ground_truth = g,
                        !.retrieved_context = c, !.is_unanswerable = u, !.llm = l] :
          g \in JudgeAnswers, c \in JudgeContexts, u \in BOOLEAN, l \in LlmOutcomes }
    \cup
    { [JudgeIdle EXCEPT !.fn = "calculate_recall", !.n_retrieved = n,
                        !.n_gt_contexts = m, !.k = k, !.verdict = v] :
          n \in 0..MaxRetrieved, m \in ContextCounts, k \in {1, 2, 3},
          v \in UNION { [1..mm -> [1..nn -> BOOLEAN]] :
                          mm \in ContextCounts, nn \in 0..MaxRetrieved } }
    \cup
    { [JudgeIdle EXCEPT !.fn = "rank_metrics", !.n_retrieved = Len(v), !.n_gt_contexts = 1,
                        !.verdict = v] :
          v \in UNION { [1..nn -> BOOLEAN] : nn \in RankedLengths } }
    \cup
    { [JudgeIdle EXCEPT !.fn = "noise_robustness", !.retrieved_contexts = c,
                        !.llms = l, !.k_values = ks] :
          c \in SeqsUpTo(NoiseContexts, MaxRetrieved),
          l \in SeqsUpTo(NoiseLlmOutcomes, MaxRetrieved),
          ks \in KValueChoices }

JudgeFrameOk(f) ==
    /\ f.fn = "calculate_recall" =>
          /\ Len(f.verdict) = f.n_gt_contexts
          /\ \A g \in 1..f.n_gt_contexts : Len(f.verdict[g]) = f.n_retrieved
    /\ f.fn = "noise_robustness" => Len(f.llms) = Len(f.retrieved_contexts)

InitJudge ==
    /\ EMBEDDING_MODEL = 0
    /\ VECTOR_DB = 0
    /\ RERANKER = 0
    /\ built = [emb |-> 0, db |-> 0, rr |-> 0]
    /\ oracleCalls = 0
    /\ pc = "ready"
    /\ call \in { f \in JudgeFrames : JudgeFrameOk(f) }
    /\ threads = NoThreads
    /\ ev = NoEval

ApplyLlmJudgeRelevance ==
    /\ pc = "ready"
    /\ call.fn = "llm_judge_relevance"
    /\ LET r == LlmJudgeRelevance(call.ground_truth, call.retrieved_context,
                                  call.is_unanswerable, call.llm)
       IN  call' = [call EXCEPT !.result =
                      [kind |-> IF r.exc = NoExc THEN "returned" ELSE "raised",
                       verdict |-> r.verdict]]
    /\ pc' = "done"
    /\ UNCHANGED <<EMBEDDING_MODEL, VECTOR_DB, RERANKER, built, oracleCalls, threads, ev>>

ApplyCalculateRecall ==
    /\ pc = "ready"
    /\ call.fn = "calculate_recall"
    /\ LET r == CalculateRecallCalls(call.n_retrieved, call.n_gt_contexts, call.k, call.verdict)
       IN  call' = [call EXCEPT !.result =
                      [kind |-> "returned", value |-> r.value, trace |-> r.trace]]
    /\ pc' = "done"
    /\ UNCHANGED <<EMBEDDING_MODEL, VECTOR_DB, RERANKER, built, oracleCalls, threads, ev>>

\* the else branch of the evaluation loops, for one unanswerable case
ApplyNoiseRobustness ==
    /\ pc = "ready"
    /\ call.fn = "noise_robustness"
    /\ LET n == Len(call.retrieved_contexts)
           judged == [j \in 1..n |->
                        LlmJudgeRelevance(<<>>, call.retrieved_contexts[j], TRUE, call.llms[j])]
           verdict == [j \in 1..n |-> judged[j].verdict]
           contexts == [j \in 1..n |-> [rel |-> verdict[j]]]
       IN  call' = [call EXCEPT !.result =
                      [kind |-> IF \E j \in 1..n : judged[j].exc # NoExc
                                THEN "raised" ELSE "returned",
                       value |-> NoiseScore(contexts, call.k_values),
                       trace |-> NoiseLoop(1, SeqMin(call.k_values), verdict),
                       verdict |-> verdict]]
    /\ pc' = "done"
    /\ UNCHANGED <<EMBEDDING_MODEL, VECTOR_DB, RERANKER, built, oracleCalls, threads, ev>>

\* calculate_mrr and calculate_recall for every k, on one ranking of an
\* answerable case with a single reference context; verdict[j] is what the
\* judge says of the j-th candidate
ApplyRankMetrics ==
    /\ pc = "ready"
    /\ call.fn = "rank_metrics"
    /\ LET contexts == [j \in 1..call.n_retrieved |-> [rel |-> call.verdict[j]]]
       IN  call' = [call EXCEPT !.result =
                      [kind |-> "returned",
                       mrr |-> CalculateMrr(contexts),
                       recall |-> [k \in 1..5 |->
                                     CalculateRecall(contexts, call.n_gt_contexts, k)]]]
    /\ pc' = "done"
    /\ UNCHANGED <<EMBEDDING_MODEL, VECTOR_DB, RERANKER, built, oracleCalls, threads, ev>>

NextJudge ==
    \/ ApplyLlmJudgeRelevance
    \/ ApplyCalculateRecall
    \/ ApplyNoiseRobustness
    \/ ApplyRankMetrics

SpecJudge == InitJudge /\ [][NextJudge]_vars

JudgeDone(fn) == pc = "done" /\ call.fn = fn

NoRepeat(trace) == \A a, b \in 1..Len(trace) : a # b => trace[a] # trace[b]

\* C12: for an unanswerable case the judge is asked, with the unanswerable
\* framing, about candidates among the first min(k_values) only; the value is
\* 1 when none of those is judged relevant and 0 when one is, whatever the
\* candidates ranked below them are.
C12_NoiseLooksAtTopMinK ==
    JudgeDone("noise_robustness") =>
        LET n == Len(call.retrieved_contexts)
            top == Min(SeqMin(call.k_values), n)
        IN  /\ \A j \in 1..n :
                 call.result.verdict[j] =
                    LlmJudgeRelevance(<<>>, call.retrieved_contexts[j], TRUE, call.llms[j]).verdict
            /\ \A a \in 1..Len(call.result.trace) : call.result.trace[a] \in 1..top
            /\ call.result.value =
                 IF \E j \in 1..top : call.result.verdict[j] THEN Zero ELSE One

C12_Witness ==
    /\ JudgeDone("noise_robustness")
    /\ call.k_values = <<1, 2>>
    /\ call.result.verdict = <<FALSE, TRUE>>
    /\ call.result.trace = <<1>>
    /\ call.result.value = One

IsLeadingClause(s, a, b) ==
    /\ a \in 1..(Len(s) + 1)
    /\ b \in (a - 1)..Len(s)
    /\ \A x \in a..b : s[x] # Comma
    /\ a = 1 \/ s[a - 1] = Comma
    /\ b = Len(s) \/ s[b + 1] = Comma
    /\ Cardinality({ x \in 1..(a - 1) : s[x] = Comma }) < FALLBACK_CLAUSES

\* C15: a failing judge call never leaves llm_judge_relevance: an answerable
\* case falls back to "the reference answer, or one of its first three
\* comma-separated clauses, occurs in the candidate text", an unanswerable
\* case to "the trimmed candidate text is longer than 50 characters"; with the
\* judge down, an unanswerable case whose top candidate is that long gets
\* noise robustness 0.
C15_JudgeFailureFallsBack ==
    /\ JudgeDone("llm_judge_relevance") =>
          /\ call.result.kind = "returned"
          /\ call.llm.raises =>
                call.result.verdict =
                   IF call.is_unanswerable
                   THEN Len(Strip(call.retrieved_context)) > LONG_CONTEXT_LEN
                   ELSE \/ IsSubstring(call.ground_truth, call.retrieved_context)
                        \/ \E a \in 1..(Len(call.ground_truth) + 1), b \in 0..Len(call.ground_truth) :
                              /\ IsLeadingClause(call.ground_truth, a, b)
                              /\ IsSubstring(SubSeq(call.ground_truth, a, b), call.retrieved_context)
    /\ JudgeDone("noise_robustness") =>
          /\ call.result.kind = "returned"
          /\ ( /\ call.retrieved_contexts # <<>>
               /\ \A j \in 1..Len(call.llms) : call.llms[j].raises
               /\ Len(Strip(call.retrieved_contexts[1])) > LONG_CONTEXT_LEN )
             => call.result.value = Zero

C15_Witness ==
    /\ JudgeDone("llm_judge_relevance")
    /\ call.llm.raises
    /\ call.is_unanswerable
    /\ Len(call.retrieved_context) = LONG_CONTEXT_LEN + 1
    /\ call.result.kind = "returned"
    /\ call.result.verdict

----------------------------------------------------------------------------
(* SpecSweep: find_optimal_threshold, the sweep over the candidate cutoffs  *)

MulFrac(x, y) == Frac(x[1] * y[1], x[2] * y[2])

\* x - y, for x >= y
SubFrac(x, y) == Frac(x[1] * y[2] - y[1] * x[2], x[2] * y[2])

LessFrac(x, y) == x[1] * y[2] < y[1] * x[2]

\* the k whose recall stands for the recall in the combined score
COMBINED_RECALL_K == 3

\* alpha * recall_score + (1 - alpha) * noise_score
CombinedScore(alpha, recall_score, noise_score) ==
    AddFrac(MulFrac(alpha, recall_score), MulFrac(SubFrac(One, alpha), noise_score))

\* a mutant: among equal scores the last one wins
ArgMaxLast(scores) ==
    CHOOSE n \in 1..Len(scores) :
        /\ \A m \in 1..Len(scores) : ~LessFrac(scores[n], scores[m])
        /\ \A m \in (n + 1)..Len(scores) : LessFrac(scores[m], scores[n])

\* max(all_results, key=...): the first item whose key no other item exceeds
ArgMax(scores) ==
    CHOOSE n \in 1..Len(scores) :
        /\ \A m \in 1..Len(scores) : ~LessFrac(scores[n], scores[m])
        /\ \A m \in 1..(n - 1) : LessFrac(scores[m], scores[n])

\* the cutoff lists of the sweep (tenths), in sweep order
SweepLists == { <<6>>, <<-10, 9>>, <<5, 6, 9>> }

\* the weights of the recall in the combined score: 0.6 and 0.5
Alphas == { <<3, 5>>, <<1, 2>> }

SweepTestSets ==
    { << [n_ctx |-> 1], [n_ctx |-> 0] >>, << [n_ctx |-> 0], [n_ctx |-> 2] >> }

SweepKValues == <<3, 5, 10>>

\* passages the pipeline hands back for one question of the sweep
MaxSweepRetrieved == 1

SweepOutcomes ==
    { o \in RetrievalOutcomes : Len(o.docs) <= MaxSweepRetrieved }

RECURSIVE RecallCallCount(_, _, _)
RecallCallCount(ks, n_ctx, rels) ==
    IF ks = <<>> THEN 0
    ELSE Len(RecallOuter(1, n_ctx, RecallTop(Len(rels), Head(ks)),
                         [g \in 1..n_ctx |-> rels]).trace)
         + RecallCallCount(Tail(ks), n_ctx, rels)

\* the judge calls evaluate_threshold makes for one case after the retrieval
JudgeCallsFor(item, outcome, threshold, k_values) ==
    IF outcome.raised THEN 0
    ELSE LET docs == ThresholdOverlay(outcome.docs, threshold).docs
             rels == [j \in 1..Len(docs) |-> JudgeRelevance(docs[j])]
         IN  IF item.n_ctx > 0
             THEN RecallCallCount(k_values, item.n_ctx, rels)
             ELSE Len(NoiseLoop(1, SeqMin(k_values), rels))

\* the averages evaluate_threshold returns
ThresholdResult(e) ==
    [threshold |-> e.threshold,
     avg_recall |-> [k \in DOMAIN e.recall_scores |-> Mean(e.recall_scores[k])],
     noise_robustness |-> Mean(e.noise_robustness_scores),
     failed_queries |-> e.failed_queries,
     rejected_queries |-> e.rejected_queries]

SweepFrame(thresholds, test_data, alpha) ==
    [pc |-> "warmup",
     thresholds |-> thresholds,
     test_data |-> test_data,
     k_values |-> SweepKValues,
     alpha |-> alpha,
     idx |-> 1,
     cur |-> EvalFrame("evaluate_threshold", test_data, SweepKValues, FALSE, thresholds[1]),
     pending |-> [raised |-> FALSE, docs |-> <<>>],
     calls_left |-> 0,
     inflight |-> 0,
     sleeps |-> 0,
     warmups |-> 0,
     passes |-> [c \in 1..Len(test_data) |-> 0],
     all_results |-> <<>>,
     combined_scores |-> <<>>,
     optimal_threshold |-> 0]

InitSweep ==
    /\ EMBEDDING_MODEL = 0
    /\ VECTOR_DB = 0
    /\ RERANKER = 0
    /\ built = [emb |-> 0, db |-> 0, rr |-> 0]
    /\ oracleCalls = 0
    /\ pc = "idle"
    /\ call = IdleFrame
    /\ threads = NoThreads
    /\ \E thresholds \in SweepLists, test_data \in SweepTestSets, alpha \in Alphas :
         ev = SweepFrame(thresholds, test_data, alpha)

UnchangedButEv ==
    UNCHANGED <<EMBEDDING_MODEL, VECTOR_DB, RERANKER, built, oracleCalls, pc, call, threads>>

\* the warm-up query before the sweep: whatever happens is dropped
SweepWarmup ==
    /\ ev.pc = "warmup"
    /\ ev' = [ev EXCEPT !.pc = "retrieve", !.warmups = @ + 1]
    /\ UnchangedButEv

\* evaluate_threshold, lines 87-105: the pipeline and the overlay for the next
\* question
SweepRetrieve ==
    /\ ev.pc = "retrieve"
    /\ ev.cur.i < Len(ev.test_data)
    /\ \E outcome \in SweepOutcomes :
         ev' = [ev EXCEPT
                  !.passes[ev.cur.i + 1] = @ + 1,
                  !.pending = outcome,
                  !.calls_left = JudgeCallsFor(ev.test_data[ev.cur.i + 1], outcome,
                                               ev.cur.threshold, ev.k_values),
                  !.pc = "judge"]
    /\ UnchangedButEv

\* llm.invoke is entered
SweepJudgeBegin ==
    /\ ev.pc = "judge"
    /\ ev.calls_left > 0
    /\ ev' = [ev EXCEPT !.pc = "judging", !.inflight = @ + 1]
    /\ UnchangedButEv

\* llm.invoke returns or raises
SweepJudgeEnd ==
    /\ ev.pc = "judging"
    /\ ev' = [ev EXCEPT !.pc = "judge", !.inflight = @ - 1, !.calls_left = @ - 1]
    /\ UnchangedButEv

\* the scores of the question are appended
SweepRecord ==
    /\ ev.pc = "judge"
    /\ ev.calls_left = 0
    /\ LET c == EvalIteration(ev.cur, ev.test_data[ev.cur.i + 1], ev.pending)
       IN  ev' = [ev EXCEPT !.cur = c,
                            !.pc = IF c.i = Len(ev.test_data) THEN "aggregate" ELSE "retrieve"]
    /\ UnchangedButEv

\* a mutant: no pause after the evaluation of a cutoff
PaceNone(e) ==
    IF e.idx < Len(e.thresholds)
    THEN [e EXCEPT !.pc = "retrieve", !.idx = @ + 1,
                   !.cur = EvalFrame("evaluate_threshold", e.test_data, e.k_values, FALSE,
                                     e.thresholds[e.idx + 1])]
    ELSE [e EXCEPT !.pc = "select"]

\* all_results.append(result) is followed by time.sleep(1)
Pace(e) == [e EXCEPT !.pc = "sleep"]

\* evaluate_threshold returns its averages
SweepAggregate ==
    /\ ev.pc = "aggregate"
    /\ ev' = Pace([ev EXCEPT !.all_results = Append(@, ThresholdResult(ev.cur))])
    /\ UnchangedButEv

\* time.sleep(1), then the next cutoff or the end of the loop
SweepSleep ==
    /\ ev.pc = "sleep"
    /\ ev' = IF ev.idx < Len(ev.thresholds)
             THEN [ev EXCEPT !.sleeps = @ + 1, !.pc = "retrieve", !.idx = @ + 1,
                             !.cur = EvalFrame("evaluate_threshold", ev.test_data, ev.k_values,
                                               FALSE, ev.thresholds[ev.idx + 1])]
             ELSE [ev EXCEPT !.sleeps = @ + 1, !.pc = "select"]
    /\ UnchangedButEv

\* lines 223-231: the combined scores and the best cutoff
SweepSelect ==
    /\ ev.pc = "select"
    /\ LET scores == [n \in 1..Len(ev.all_results) |->
                        CombinedScore(ev.alpha,
                                      ev.all_results[n].avg_recall[COMBINED_RECALL_K],
                                      ev.all_results[n].noise_robustness)]
       IN  ev' = [ev EXCEPT !.combined_scores = scores,
                            !.optimal_threshold = ev.all_results[ArgMax(scores)].threshold,
                            !.pc = "done"]
    /\ UnchangedButEv

NextSweep ==
    \/ SweepWarmup
    \/ SweepRetrieve
    \/ SweepJudgeBegin
    \/ SweepJudgeEnd
    \/ SweepRecord
    \/ SweepAggregate
    \/ SweepSleep
    \/ SweepSelect

SpecSweep == InitSweep /\ [][NextSweep]_vars

InEvaluation == ev.pc \in {"retrieve", "judge", "judging", "aggregate"}

\* p/q = alpha * r + (1 - alpha) * n, by cross-multiplication
IsWeightedSum(pq, alpha, r, n) ==
    pq[1] * (alpha[2] * r[2] * n[2])
        = pq[2] * (alpha[1] * r[1] * n[2] + (alpha[2] - alpha[1]) * n[1] * r[2])

\* C14: find_optimal_threshold gives every swept cutoff the combined score
\* alpha * Recall@3 + (1 - alpha) * NoiseRobustness and returns a cutoff whose
\* combined score no other cutoff exceeds, the first such cutoff in sweep
\* order.
C14_OptimalIsFirstMaximum ==
    ev.pc = "done" =>
        /\ Len(ev.combined_scores) = Len(ev.thresholds)
        /\ \A n \in 1..Len(ev.thresholds) :
              /\ ev.all_results[n].threshold = ev.thresholds[n]
              /\ IsWeightedSum(ev.combined_scores[n], ev.alpha,
                               ev.all_results[n].avg_recall[3],
                               ev.all_results[n].noise_robustness)
        /\ \E n \in 1..Len(ev.thresholds) :
              /\ ev.optimal_threshold = ev.thresholds[n]
              /\ \A m \in 1..Len(ev.thresholds) :
                    ~LessFrac(ev.combined_scores[n], ev.combined_scores[m])
              /\ \A m \in 1..(n - 1) :
                    LessFrac(ev.combined_scores[m], ev.combined_scores[n])

\* an interior cutoff is selected, and it ties with the one after it
C14_Witness ==
    /\ ev.pc = "done"
    /\ Len(ev.thresholds) = 3
    /\ ev.optimal_threshold = ev.thresholds[2]
    /\ LessFrac(ev.combined_scores[1], ev.combined_scores[2])
    /\ ev.combined_scores[2] = ev.combined_scores[3]
    /\ ev.combined_scores[2] = <<2, 5>>

\* C18: the optimizer evaluates the cutoffs one after another, at most one
\* judge call is in progress at any time, and a pause lies between the end of
\* the evaluation of a cutoff and the start of the evaluation of the next.
C18_SweepSerializedAndPaced ==
    /\ ev.inflight \in {0, 1}
    /\ ev.inflight = 1 <=> ev.pc = "judging"
    /\ InEvaluation =>
          /\ Len(ev.all_results) = ev.idx - 1
          /\ ev.sleeps = ev.idx - 1
    /\ ev.pc = "sleep" => ev.sleeps = ev.idx - 1 /\ Len(ev.all_results) = ev.idx
    /\ ev.pc \in {"select", "done"} => ev.sleeps = Len(ev.thresholds)

C18_Witness ==
    /\ ev.pc = "judging"
    /\ ev.idx = 2
    /\ ev.sleeps = 1
    /\ ev.inflight = 1

\* C19: in a sweep the retrieval and rerank pass of a test question runs once,
\* however many cutoffs are swept.
C19_OnePassPerQuestion ==
    ev.pc = "done" => \A c \in 1..Len(ev.test_data) : ev.passes[c] = 1

----------------------------------------------------------------------------
(* SpecBm25: bm25_search called again and again on a store whose corpus     *)
(* changes between the calls                                                *)

\* the chunks the store may hold
Bm25Docs ==
    { Document(<<"b">>, [source |-> "f1"]),
      Document(<<"c", " ">>, [source |-> "f2"]),
      Document(<<"d">>, [source |-> "f2"]) }

Bm25Ks == {1, POLICY_K}

\* a mutant: the corpus of the index built by an earlier call is used again
Bm25CorpusCached(store, last_index_docs) ==
    IF last_index_docs # {} THEN last_index_docs ELSE store

\* db_data = vector_db.get(); all_docs = db_data['documents']
Bm25Corpus(store, last_index_docs) == store

\* the orders in which the retriever may rank the documents of its index
Bm25Rankings(all_docs) ==
    { r \in [1..Cardinality(all_docs) -> all_docs] :
        \A a, b \in 1..Cardinality(all_docs) : a # b => r[a] # r[b] }

\* a mutant: the index is built whatever the corpus holds
Bm25SearchCallNoGuard(get_ok, all_docs, ranked, k, builds) ==
    [ret |-> Bm25Search(get_ok, all_docs, ranked, k),
     raised |-> FALSE,
     builds |-> IF get_ok THEN builds + 1 ELSE builds,
     index_docs |-> IF get_ok THEN all_docs ELSE {}]

\* bm25_search with what it builds: builds counts the indexes constructed,
\* index_docs is the corpus the index of this call was built from
Bm25SearchCall(get_ok, all_docs, ranked, k, builds) ==
    [ret |-> Bm25Search(get_ok, all_docs, ranked, k),
     raised |-> FALSE,
     builds |-> IF get_ok /\ all_docs # {} THEN builds + 1 ELSE builds,
     index_docs |-> IF get_ok /\ all_docs # {} THEN all_docs ELSE {}]

Bm25Frame(store) ==
    [fn |-> "bm25_search", store |-> store, changes |-> 0, calls |-> 0,
     builds |-> 0, builds_before |-> 0, last_index_docs |-> {},
     get_ok |-> TRUE, k |-> 0, snapshot |-> {}, prev_snapshot |-> {},
     ret |-> <<>>, raised |-> FALSE]

InitBm25 ==
    /\ EMBEDDING_MODEL = 0
    /\ VECTOR_DB = 1
    /\ RERANKER = 0
    /\ built = [emb |-> 1, db |-> 1, rr |-> 0]
    /\ oracleCalls = 0
    /\ pc = "ready"
    /\ \E store \in SUBSET Bm25Docs : call = Bm25Frame(store)
    /\ threads = NoThreads
    /\ ev = NoEval

\* the corpus of the store is changed from outside: a chunk is added or removed
CorpusChange ==
    /\ call.changes < MaxChanges
    /\ \E d \in Bm25Docs :
         call' = [call EXCEPT !.changes = @ + 1,
                              !.store = IF d \in call.store THEN call.store \ {d}
                                        ELSE call.store \cup {d}]
    /\ UNCHANGED <<EMBEDDING_MODEL, VECTOR_DB, RERANKER, built, oracleCalls, pc, threads, ev>>

CallBm25Search ==
    /\ call.calls < MaxCalls
    /\ LET all_docs == Bm25Corpus(call.store, call.last_index_docs)
       IN  \E get_ok \in BOOLEAN, k \in Bm25Ks, ranked \in Bm25Rankings(all_docs) :
             LET r == Bm25SearchCall(get_ok, all_docs, ranked, k, call.builds)
             IN  call' = [call EXCEPT
                            !.calls = @ + 1,
                            !.get_ok = get_ok,
                            !.k = k,
                            !.prev_snapshot = call.snapshot,
                            !.snapshot = call.store,
                            !.builds_before = call.builds,
                            !.builds = r.builds,
                            !.last_index_docs = IF r.index_docs # {} THEN r.index_docs ELSE @,
                            !.ret = r.ret,
                            !.raised = r.raised]
    /\ UNCHANGED <<EMBEDDING_MODEL, VECTOR_DB, RERANKER, built, oracleCalls, pc, threads, ev>>

NextBm25 == CorpusChange \/ CallBm25Search

SpecBm25 == InitBm25 /\ [][NextBm25]_vars

\* C16: on an empty corpus bm25_search returns the empty list, raises nothing
\* and builds no index.
C16_EmptyCorpusNoIndex ==
    (call.calls > 0 /\ call.snapshot = {}) =>
        /\ call.ret = <<>>
        /\ ~call.raised
        /\ call.builds = call.builds_before

C16_Witness ==
    /\ call.calls = 2
    /\ call.snapshot = {}
    /\ call.prev_snapshot # {}
    /\ call.get_ok
    /\ call.ret = <<>>
    /\ call.builds = 1

\* C17: every bm25_search call that gets the corpus reads the whole current
\* corpus of the store and builds its index from it: it returns the min(k, n)
\* best-ranked of the n passages stored at the time of the call, and never a
\* passage that only an earlier corpus held.
C17_RanksCurrentCorpusOnly ==
    (call.calls > 0 /\ call.get_ok) =>
        /\ \A j \in 1..Len(call.ret) : call.ret[j] \in call.snapshot
        /\ Len(call.ret) = Min(call.k, Cardinality(call.snapshot))
        /\ \A a, b \in 1..Len(call.ret) : a # b => call.ret[a] # call.ret[b]
        /\ call.snapshot # {} =>
              /\ call.builds = call.builds_before + 1
              /\ call.last_index_docs = call.snapshot

C17_Witness ==
    /\ call.calls = 2
    /\ call.get_ok
    /\ call.prev_snapshot \ call.snapshot # {}
    /\ call.snapshot \ call.prev_snapshot # {}
    /\ call.builds = 2
    /\ Len(call.ret) = 2

----------------------------------------------------------------------------
(* Properties of ensemble_results and rerank_documents (SpecFn) *)

EnsembleDone == pc = "done" /\ call.fn = "ensemble_results"

RerankReturned ==
    pc = "done" /\ call.fn = "rerank_documents" /\ call.result.kind = "returned"

Key(doc) == Strip(doc.page_content)

\* index of the first passage of docs whose trimmed text is key
FirstIdx(docs, key) ==
    CHOOSE i \in 1..Len(docs) :
        /\ Key(docs[i]) = key
        /\ \A j \in 1..(i - 1) : Key(docs[j]) # key

\* 1-based place of candidate i when the candidates are ordered by descending
\* score, equal scores in input order
RankOf(scores, i) ==
    1 + Cardinality({ j \in 1..Len(scores) :
                        scores[j] > scores[i] \/ (scores[j] = scores[i] /\ j < i) })

\* the candidates that rerank_documents is to return
Survivors(scores, top_k, cutoff) ==
    { i \in 1..Len(scores) : RankOf(scores, i) <= top_k /\ scores[i] >= cutoff }

\* out[j] is candidate i of docs, carrying score as its rerank_score
IsScored(out_doc, doc, score) ==
    /\ out_doc.page_content = doc.page_content
    /\ DOMAIN out_doc.metadata = DOMAIN doc.metadata \cup {"rerank_score"}
    /\ out_doc.metadata.source = doc.metadata.source
    /\ out_doc.metadata.rerank_score = score

\* C5: ensemble_results(S, L) keeps, for each distinct trimmed text of S
\* followed by L, the first passage that has it: no two passages of the output
\* share a trimmed text, every trimmed text of S or L is there, and the output
\* is in first-occurrence order.
C5_EnsembleKeepsFirst ==
    EnsembleDone =>
        LET all == call.vector_docs \o call.keyword_docs
            out == call.merged_docs
        IN  /\ \A i, j \in 1..Len(out) : i # j => Key(out[i]) # Key(out[j])
            /\ { Key(out[i]) : i \in 1..Len(out) } = { Key(all[i]) : i \in 1..Len(all) }
            /\ \A i \in 1..Len(out) : out[i] = all[FirstIdx(all, Key(out[i]))]
            /\ \A i, j \in 1..Len(out) :
                 i < j => FirstIdx(all, Key(out[i])) < FirstIdx(all, Key(out[j]))

C5_Witness ==
    /\ EnsembleDone
    /\ Len(call.vector_docs) = 2 /\ Len(call.keyword_docs) = 2
    /\ Key(call.keyword_docs[1]) = Key(call.vector_docs[1])
    /\ call.keyword_docs[1] # call.vector_docs[1]
    /\ Len(call.merged_docs) = 3

\* C3: rerank_documents returns exactly the candidates that are among the
\* first top_k by descending score and whose score is >= the cutoff (a score
\* equal to the cutoff is kept), each carrying its own oracle score, never
\* more than top_k of them; scores [0.8, 0.6, 0.3] with top_k = 3 and cutoff
\* 0.5 give the first two candidates in that order.
C3_RerankExact ==
    RerankReturned =>
        LET docs == call.merged_docs
            out == call.reranked_docs
            keep == Survivors(call.scores, call.top_k, call.score_threshold)
        IN  /\ Len(out) <= call.top_k
            /\ Len(out) = Cardinality(keep)
            /\ \A i \in keep : \E j \in 1..Len(out) : IsScored(out[j], docs[i], call.scores[i])
            /\ \A j \in 1..Len(out) : \E i \in keep : IsScored(out[j], docs[i], call.scores[i])
            /\ (call.scores = <<8, 6, 3>> /\ call.top_k = 3 /\ call.score_threshold = 5)
                   => /\ Len(out) = 2
                      /\ IsScored(out[1], docs[1], 8)
                      /\ IsScored(out[2], docs[2], 6)

C3_Witness ==
    /\ RerankReturned
    /\ call.scores = <<8, 6, 3>> /\ call.top_k = 3 /\ call.score_threshold = 5
    /\ Len(call.reranked_docs) = 2
    /\ call.reranked_docs[2].page_content = <<" ", "a">>

\* C4: the output of rerank_documents is in non-increasing order of
\* rerank score, and candidates with equal scores keep the order they had in
\* the input list.
C4_RerankSortedStable ==
    RerankReturned =>
        LET docs == call.merged_docs
            out == call.reranked_docs
            InputPos(d) == CHOOSE i \in 1..Len(docs) : docs[i].page_content = d.page_content
        IN  \A a, b \in 1..Len(out) :
                a < b =>
                    /\ out[a].metadata.rerank_score >= out[b].metadata.rerank_score
                    /\ out[a].metadata.rerank_score = out[b].metadata.rerank_score
                           => InputPos(out[a]) < InputPos(out[b])

C4_Witness ==
    /\ RerankReturned
    /\ call.scores = <<5, 8, 5>>
    /\ Len(call.reranked_docs) = 3
    /\ call.reranked_docs[1].page_content = call.merged_docs[2].page_content
    /\ call.reranked_docs[2].page_content = call.merged_docs[1].page_content

\* the cutoffs a second call is given: those of the calls and the scores
HigherCutoffs(cutoff) == { c \in Cutoffs \cup ScoreVals \cup {9} : c > cutoff }

IsPrefix(xs, ys) == Len(xs) <= Len(ys) /\ xs = SubSeq(ys, 1, Len(xs))

\* C20: cutoff monotonicity: with the candidates, the scores and top_k fixed,
\* what rerank_documents returns at a higher cutoff is a prefix, hence a
\* subset, of what it returns at a lower one.
C20_CutoffMonotone ==
    RerankReturned =>
        \A cutoff2 \in HigherCutoffs(call.score_threshold) :
            LET at2 == RankAndFilter(call.merged_docs, call.scores, call.top_k, cutoff2)
            IN  /\ IsPrefix(at2, call.reranked_docs)
                /\ \A j \in 1..Len(at2) :
                      \E m \in 1..Len(call.reranked_docs) : call.reranked_docs[m] = at2[j]

C20_Witness ==
    /\ RerankReturned
    /\ call.score_threshold = 5
    /\ Len(call.reranked_docs) = 3
    /\ Len(RankAndFilter(call.merged_docs, call.scores, call.top_k, 6)) = 2
    /\ Len(RankAndFilter(call.merged_docs, call.scores, call.top_k, 7)) = 1

DistinctKeys(docs) == \A i, j \in 1..Len(docs) : i # j => Key(docs[i]) # Key(docs[j])

\* the passages of docs that no earlier passage of docs shares its trimmed
\* text with, in the order of docs
FirstOccurrences(docs) ==
    LET IsFirst(i) == \A j \in 1..(i - 1) : Key(docs[j]) # Key(docs[i])
        F[i \in 0..Len(docs)] ==
            IF i = 0 THEN <<>>
            ELSE IF IsFirst(i) THEN Append(F[i - 1], docs[i]) ELSE F[i - 1]
    IN  F[Len(docs)]

\* C23 as stated: merging a list with itself gives the list back, whatever
\* the list.
C23_SelfMergeIsIdentity ==
    (EnsembleDone /\ call.vector_docs = call.keyword_docs)
        => call.merged_docs = call.vector_docs

\* C23, amended: merging a list A with itself gives the first passage of each
\* trimmed text of A, in the order of A, and no two passages of the result
\* share a trimmed text; that is A itself exactly when no two passages of A
\* share a trimmed text, and a shorter list otherwise.
C23_SelfMergeIsDedup ==
    (EnsembleDone /\ call.vector_docs = call.keyword_docs) =>
        /\ call.merged_docs = FirstOccurrences(call.vector_docs)
        /\ DistinctKeys(call.merged_docs)
        /\ DistinctKeys(call.vector_docs) <=> call.merged_docs = call.vector_docs
        /\ ~DistinctKeys(call.vector_docs) => Len(call.merged_docs) < Len(call.vector_docs)

C23_Witness ==
    /\ EnsembleDone
    /\ call.vector_docs = call.keyword_docs
    /\ Len(call.vector_docs) = 2
    /\ ~DistinctKeys(call.vector_docs)
    /\ Len(call.merged_docs) = 1

\* C24: dedup idempotence: merging an already merged list with the empty list
\* gives the same list, members and order.
C24_MergeIdempotent ==
    EnsembleDone =>
        /\ EnsembleResults(call.merged_docs, <<>>) = call.merged_docs
        /\ EnsembleResults(EnsembleResults(call.vector_docs, call.keyword_docs), <<>>)
              = EnsembleResults(call.vector_docs, call.keyword_docs)

C24_Witness ==
    /\ EnsembleDone
    /\ Len(call.vector_docs) = 2 /\ Len(call.keyword_docs) = 2
    /\ Len(call.merged_docs) = 2
    /\ ~DistinctKeys(call.vector_docs)
    /\ EnsembleResults(call.merged_docs, <<>>) = call.merged_docs

Mode3Done == pc = "done" /\ call.fn = "retrieval_mode_3"

\* C26: when the semantic retriever returns k passages with pairwise distinct
\* trimmed texts, retrieval_mode_3_hybrid_no_rerank(query, k) returns exactly
\* those passages in the same order, and no passage that only the lexical
\* retriever returned.
C26_Mode3IsVectorWhenFull ==
    (Mode3Done /\ Len(call.vector_docs) = call.top_k /\ DistinctKeys(call.vector_docs)) =>
        /\ call.result.entries = call.vector_docs
        /\ \A j \in 1..Len(call.result.entries) :
              \E m \in 1..Len(call.vector_docs) : call.result.entries[j] = call.vector_docs[m]

C26_Witness ==
    /\ Mode3Done
    /\ call.top_k = 2
    /\ Len(call.vector_docs) = 2
    /\ DistinctKeys(call.vector_docs)
    /\ Len(call.keyword_docs) = 2
    /\ \A j \in 1..2 : \A m \in 1..2 : Key(call.keyword_docs[j]) # Key(call.vector_docs[m])
    /\ Len(call.merged_docs) = 4
    /\ call.result.entries = call.vector_docs

----------------------------------------------------------------------------
(* Relations between the metrics (SpecJudge, SpecEval) *)

\* C21: recall monotonicity: with the ranking, the reference contexts and the
\* verdicts of the judge fixed, calculate_recall at k1 is at most
\* calculate_recall at k2 whenever k1 <= k2.
C21_RecallMonotoneInK ==
    JudgeDone("calculate_recall") =>
        \A k2 \in {1, 2, 3} :
            call.k <= k2 =>
                ~LessFrac(CalculateRecallCalls(call.n_retrieved, call.n_gt_contexts,
                                               k2, call.verdict).value,
                          call.result.value)

C21_Witness ==
    /\ JudgeDone("calculate_recall")
    /\ call.k = 1
    /\ call.n_retrieved = 2
    /\ call.n_gt_contexts = 1
    /\ call.result.value = Zero
    /\ CalculateRecallCalls(call.n_retrieved, call.n_gt_contexts, 2, call.verdict).value = One

\* C22: for an answerable case with one reference context whose first relevant
\* candidate has rank r, calculate_mrr is 1/r (0 when no candidate is
\* relevant) and Recall@k is 0 for k < r and 1 for k >= r; first relevant at
\* rank 2 of 5 gives Recall@1 = 0, Recall@3 = 1 and MRR = 1/2.
C22_RankOfFirstRelevant ==
    JudgeDone("rank_metrics") =>
        LET hits == { j \in 1..call.n_retrieved : call.verdict[j] }
        IN  /\ hits = {} =>
                  /\ call.result.mrr = Zero
                  /\ \A k \in 1..5 : call.result.recall[k] = Zero
            /\ \A r \in hits :
                  (\A h \in hits : r <= h) =>
                      /\ call.result.mrr[1] = 1 /\ call.result.mrr[2] = r
                      /\ \A k \in 1..5 :
                            call.result.recall[k] = IF k < r THEN Zero ELSE One
            /\ (call.n_retrieved = 5 /\ 1 \notin hits /\ 2 \in hits) =>
                  /\ call.result.recall[1] = Zero
                  /\ call.result.recall[3] = One
                  /\ call.result.mrr = <<1, 2>>

C22_Witness ==
    /\ JudgeDone("rank_metrics")
    /\ call.verdict = <<FALSE, TRUE, FALSE, TRUE, FALSE>>
    /\ call.result.mrr = <<1, 2>>
    /\ call.result.recall[1] = Zero
    /\ call.result.recall[3] = One

----------------------------------------------------------------------------
(* Properties of the lookup entry point and of the confidence gate (Spec) *)

PolicyDone == pc = "done" /\ call.fn = "query_policy"

\* C1: query_policy never raises, whatever the index, the retrievers and the
\* cross-encoder do: it answers the not-found sentinel when the pipeline
\* returns no passage, and the error sentinel carrying the exception's message
\* exactly when a step of the pipeline fails, that is when an exception leaves
\* it (a missing index directory, the construction of a model or of the index
\* handle, the semantic search, the cross-encoder). An exception inside
\* bm25_search never leaves it: that step returns the empty list.
C1_NeverRaises ==
    PolicyDone =>
        /\ call.result.kind \in {"passages", "not_found", "error"}
        /\ (call.exc = NoExc /\ call.reranked_docs = <<>>) => call.result.kind = "not_found"
        /\ call.exc # NoExc <=> call.result.kind = "error"
        /\ call.result.kind = "error" => call.result.message = call.exc

C1_Witness ==
    /\ PolicyDone
    /\ call.exc = "FileNotFoundError"
    /\ call.result.kind = "error"
    /\ VECTOR_DB = 0

\* C2: a failure of the cross-encoder inside rerank_documents is absorbed by
\* rerank_documents, which returns the empty list, so that the lookup answers
\* with the not-found sentinel.
C2_OracleFailureIsNotFound ==
    (PolicyDone /\ call.stage = "rerank_documents" /\ call.merged_docs # <<>>
        /\ call.scores = <<>>)
        => /\ call.exc = NoExc
           /\ call.reranked_docs = <<>>
           /\ call.result.kind = "not_found"

\* C7: query_policy applies the per-document cutoff 0.5 to the three
\* highest-scored fused candidates and nothing else: it returns passages
\* exactly when one of those three has a score >= 0.5, and then one block for
\* every such candidate.
C7_PolicyPerDocumentCutoffOnly ==
    PolicyDone =>
        LET docs == call.merged_docs
            keep == Survivors(call.scores, 3, 5)
            out == call.result.entries
        IN  /\ call.result.kind = "passages" <=> keep # {}
            /\ call.result.kind = "passages" =>
                 /\ Len(out) = Cardinality(keep)
                 /\ \A i \in keep : \E j \in 1..Len(out) :
                        /\ out[j].content = Strip(docs[i].page_content)
                        /\ out[j].source = docs[i].metadata.source
                 /\ \A j \in 1..Len(out) : out[j].rank = j

C7_Witness ==
    /\ PolicyDone
    /\ call.scores = <<8, 8, 5, 5>>
    /\ call.result.kind = "passages"
    /\ Len(call.result.entries) = 3

\* the greatest rerank score of a non-empty reranked list
MaxScore(docs) ==
    CHOOSE m \in { docs[i].metadata.rerank_score : i \in 1..Len(docs) } :
        \A i \in 1..Len(docs) : docs[i].metadata.rerank_score <= m

OverlayDone ==
    /\ pc = "done"
    /\ call.fn \in {"mode4", "evaluate_threshold"}
    /\ call.result.kind = "returned"

\* C6: the whole-query overlay is all or nothing: mode 4 and
\* evaluate_threshold return the empty list when the best reranked score is
\* below the sweep threshold, and otherwise the complete reranked set.
C6_OverlayAllOrNothing ==
    OverlayDone =>
        LET r == call.reranked_docs
            out == call.result.entries
            reject == r # <<>> /\ MaxScore(r) < call.score_threshold
        IN  /\ reject => out = <<>>
            /\ ~reject => out = r
            /\ call.fn = "evaluate_threshold" => (call.rejected <=> reject)

C6_Witness ==
    /\ OverlayDone
    /\ call.fn = "mode4"
    /\ call.score_threshold = 6
    /\ Len(call.reranked_docs) = 3
    /\ call.reranked_docs[3].metadata.rerank_score = 5
    /\ call.result.entries = call.reranked_docs

\* C9: rerank_documents given the empty list returns the empty list and
\* neither obtains the cross-encoder nor asks it for scores.
C9_EmptyInputSkipsOracle ==
    (pc = "done" /\ call.stage = "rerank_documents" /\ call.merged_docs = <<>>)
        => /\ call.exc = NoExc
           /\ call.reranked_docs = <<>>
           /\ RERANKER = call.rr_before
           /\ built.rr = (IF call.rr_before = 0 THEN 0 ELSE built.rr)
           /\ oracleCalls = call.calls_before

C9_Witness ==
    /\ pc = "done"
    /\ call.stage = "rerank_documents"
    /\ call.merged_docs = <<>>
    /\ call.fn = "query_policy"
    /\ RERANKER = 0
    /\ call.result.kind = "not_found"

----------------------------------------------------------------------------
(* Monotonicity of the sweep (SpecSweep) *)

\* the case evaluated last and what the pipeline returned for it
LastCaseScored ==
    /\ ev.pc \in {"retrieve", "aggregate"}
    /\ ev.cur.i >= 1
    /\ ~ev.pending.raised

\* evaluate_threshold's scores of one case at threshold t
CaseAt(t, item, docs) ==
    ScoreThresholdCase(EvalFrame("evaluate_threshold", <<item>>, ev.k_values, FALSE, t),
                       item, docs)

\* C27: with the retrieval result, the rerank scores and the verdicts fixed,
\* the sweep is monotone in the threshold: for t1 < t2 a query rejected at t1
\* is rejected at t2, the Recall@k of an answerable case at t2 is at most its
\* value at t1, and the noise robustness of an unanswerable case at t2 is at
\* least its value at t1; a rejected answerable case scores recall 0 and a
\* rejected unanswerable case noise robustness 1.
C27_SweepMonotone ==
    LastCaseScored =>
        LET item == ev.test_data[ev.cur.i]
            docs == ev.pending.docs
            at1 == CaseAt(ev.cur.threshold, item, docs)
        IN  /\ \A k \in DOMAIN ev.cur.recall_scores :
                  item.n_ctx > 0 =>
                     ev.cur.recall_scores[k][Len(ev.cur.recall_scores[k])]
                        = at1.recall_scores[k][1]
            /\ item.n_ctx = 0 =>
                  ev.cur.noise_robustness_scores[Len(ev.cur.noise_robustness_scores)]
                     = at1.noise_robustness_scores[1]
            /\ at1.rejected_queries = 1 =>
                  IF item.n_ctx > 0
                  THEN \A k \in DOMAIN at1.recall_scores : at1.recall_scores[k][1] = Zero
                  ELSE at1.noise_robustness_scores[1] = One
            /\ \A t2 \in SweepThresholds :
                  ev.cur.threshold < t2 =>
                     LET at2 == CaseAt(t2, item, docs)
                     IN  /\ at1.rejected_queries = 1 => at2.rejected_queries = 1
                         /\ item.n_ctx > 0 =>
                               \A k \in DOMAIN at1.recall_scores :
                                  ~LessFrac(at1.recall_scores[k][1], at2.recall_scores[k][1])
                         /\ item.n_ctx = 0 =>
                               ~LessFrac(at2.noise_robustness_scores[1],
                                         at1.noise_robustness_scores[1])

C27_Witness ==
    /\ LastCaseScored
    /\ ev.cur.threshold = 5
    /\ ev.cur.i = 1
    /\ ev.test_data[1].n_ctx > 0
    /\ ev.pending.docs # <<>>
    /\ ev.cur.rejected_queries = 0
    /\ ev.cur.recall_scores[3] = <<One>>
    /\ CaseAt(9, ev.test_data[1], ev.pending.docs).rejected_queries = 1
    /\ CaseAt(9, ev.test_data[1], ev.pending.docs).recall_scores[3] = <<Zero>>

----------------------------------------------------------------------------
(* SpecApproval: the approval workflow of one conversation thread *)
(* (src/core/base.py, src/core/nodes.py). `call` holds the thread's state as *)
(* the checkpointer keeps it, the node the graph runs next, and a record of *)
(* the current approval run. *)

\* approvals submitted in one thread
MaxApprovals == 2

\* user messages sent to one thread
MaxTurns == 3

\* rounds through tool_executor in one thread
MaxToolRounds == 1

\* should_revise, line 362: the revision limit
MAX_REVISIONS == 3

\* Python's None as the value of an Optional[str] field
NoneValue == "None"

\* the tools bound to the agent's model (agent_node, line 34)
ToolNames == {"lookup_policy_tool", "get_destination_weather", "TripSubmission"}

\* the tool calls of the agent's answer: none (a plain reply, also the reply
\* built when the model raises, lines 52-55), or calls of one or more tools
AgentToolCalls == SUBSET ToolNames

\* the answers of the decision model: a parsed ApprovalDecision or an exception
DecisionAnswers == {"APPROVED", "REJECTED", "raise"}

\* the answers of the critique model: a parsed CritiqueResult or an exception
CritiqueAnswers ==
    {[raised |-> FALSE, is_valid |-> TRUE, feedback |-> "ok"],
     [raised |-> FALSE, is_valid |-> FALSE, feedback |-> "recompute"],
     [raised |-> FALSE, is_valid |-> FALSE, feedback |-> ""],
     [raised |-> TRUE, is_valid |-> FALSE, feedback |-> ""]}

\* router_function, lines 60-96: the destinations of the agent's answer
router_function(tool_names) ==
    IF tool_names = {}
    THEN <<"end">>
    ELSE LET approval == IF "TripSubmission" \in tool_names
                         THEN <<"start_approval">> ELSE <<>>
             common == IF tool_names \cap {"lookup_policy_tool", "get_destination_weather"} # {}
                       THEN <<"run_tool">> ELSE <<>>
             destinations == approval \o common
         IN  IF destinations = <<>> THEN <<"run_tool">> ELSE destinations

\* build_workflow, lines 65-73: the nodes behind the router's destinations
AgentEdges(destination) ==
    CASE destination = "end" -> "END"
      [] destination = "run_tool" -> "tool_executor"
      [] destination = "start_approval" -> "data_sync"

\* a mutant: the limit is compared one too high
ShouldReviseOneMore(decision_feedback, revision_count) ==
    IF decision_feedback \in {NoneValue, ""}
    THEN "pass"
    ELSE IF revision_count > MAX_REVISIONS THEN "pass" ELSE "revise"

\* should_revise, lines 349-367
should_revise(decision_feedback, revision_count) ==
    IF decision_feedback \in {NoneValue, ""}
    THEN "pass"
    ELSE IF revision_count >= MAX_REVISIONS THEN "pass" ELSE "revise"

\* build_workflow, lines 84-91: the nodes behind should_revise's answers
CritiqueEdges(answer) ==
    IF answer = "revise" THEN "make_decision" ELSE "save_db"

\* make_decision_node, lines 252-272: the update it returns
make_decision_update(answer) ==
    IF answer = "raise"
    THEN [final_decision |-> "system_error", status |-> "REJECTED"]
    ELSE [final_decision |-> "reason", status |-> answer]

\* critique_decision_node, lines 326-346: the update it returns, as the new
\* values of decision_feedback and revision_count
critique_decision_update(answer, revision_count) ==
    IF answer.raised
    THEN [decision_feedback |-> NoneValue, revision_count |-> revision_count]
    ELSE IF answer.is_valid
         THEN [decision_feedback |-> NoneValue, revision_count |-> revision_count]
         ELSE [decision_feedback |-> answer.feedback,
               revision_count |-> revision_count + 1]

\* the number of times a node occurs in a path
RECURSIVE Occurrences(_, _)
Occurrences(path, node) ==
    IF path = <<>> THEN 0
    ELSE (IF Head(path) = node THEN 1 ELSE 0) + Occurrences(Tail(path), node)

\* the state of a new thread: no checkpoint, every field of TripState unset
\* (state.get("revision_count", 0) reads an unset count as 0)
ApprovalFrame ==
    [node |-> "END", turns |-> 0, tool_rounds |-> 0, approvals |-> 0,
     tool_calls |-> {}, prompt_feedback |-> NoneValue,
     destination |-> NoneValue, weather |-> NoneValue, policy_context |-> NoneValue,
     final_decision |-> NoneValue, status |-> NoneValue, record_id |-> NoneValue,
     decision_feedback |-> NoneValue, revision_count |-> 0,
     start_count |-> 0, start_feedback |-> NoneValue,
     path |-> <<>>, revised_at |-> {}]

InitApproval ==
    /\ EMBEDDING_MODEL = 0
    /\ VECTOR_DB = 1
    /\ RERANKER = 0
    /\ built = [emb |-> 1, db |-> 1, rr |-> 0]
    /\ oracleCalls = 0
    /\ pc = "ready"
    /\ call = ApprovalFrame
    /\ threads = NoThreads
    /\ ev = NoEval

ApprovalUnchanged ==
    UNCHANGED <<EMBEDDING_MODEL, VECTOR_DB, RERANKER, built, oracleCalls, pc, threads, ev>>

\* main.py, lines 33-37: app.invoke with the user's message as the only input;
\* every other field of the thread's state is what the checkpointer kept
UserMessage ==
    /\ call.node = "END"
    /\ call.turns < MaxTurns
    /\ call' = [call EXCEPT !.node = "agent", !.turns = @ + 1, !.tool_calls = {}]
    /\ ApprovalUnchanged

\* agent_node, lines 21-57, followed by the conditional edge of router_function.
\* Answers that the router sends to two branches at once are left to the
\* graph library and are not followed here.
agent_node ==
    /\ call.node = "agent"
    /\ \E tool_calls \in AgentToolCalls :
         LET destinations == router_function(tool_calls)
         IN  /\ Len(destinations) = 1
             /\ destinations[1] = "start_approval" => call.approvals < MaxApprovals
             /\ destinations[1] = "run_tool" => call.tool_rounds < MaxToolRounds
             /\ call' = [call EXCEPT !.node = AgentEdges(destinations[1]),
                                     !.tool_calls = tool_calls]
    /\ ApprovalUnchanged

\* ToolNode(tools) and the edge tool_executor -> agent (base.py, lines 52, 77)
tool_executor ==
    /\ call.node = "tool_executor"
    /\ call' = [call EXCEPT !.node = "agent", !.tool_rounds = @ + 1, !.tool_calls = {}]
    /\ ApprovalUnchanged

\* data_sync_node, lines 99-134: the update holds the four fields of the
\* application and the tool message, nothing else
data_sync_node ==
    /\ call.node = "data_sync"
    /\ IF "TripSubmission" \in call.tool_calls
       THEN call' = [call EXCEPT !.node = "check_weather",
                                 !.destination = "city",
                                 !.tool_calls = {},
                                 !.approvals = @ + 1,
                                 !.start_count = call.revision_count,
                                 !.start_feedback = call.decision_feedback,
                                 !.path = <<"data_sync">>,
                                 !.revised_at = {}]
       ELSE call' = [call EXCEPT !.node = "check_weather",
                                 !.approvals = @ + 1,
                                 !.start_count = call.revision_count,
                                 !.start_feedback = call.decision_feedback,
                                 !.path = <<"data_sync">>,
                                 !.revised_at = {}]
    /\ ApprovalUnchanged

\* check_weather_node, lines 137-166: get_real_weather absorbs its failures
check_weather_node ==
    /\ call.node = "check_weather"
    /\ \E weather \in {"Sunny", "Unknown"} :
         call' = [call EXCEPT !.node = "compliance_check",
                              !.weather = weather,
                              !.path = Append(@, "check_weather")]
    /\ ApprovalUnchanged

\* compliance_check_node, lines 169-177: query_policy returns a text, the
\* error sentinel included
compliance_check_node ==
    /\ call.node = "compliance_check"
    /\ \E policy_text \in {"policy", "sentinel"} :
         call' = [call EXCEPT !.node = "make_decision",
                              !.policy_context = policy_text,
                              !.path = Append(@, "compliance_check")]
    /\ ApprovalUnchanged

\* make_decision_node, lines 193-272: the feedback read at line 209 goes into
\* the prompt; the answer of the model, or its failure, becomes the decision
make_decision_node ==
    /\ call.node = "make_decision"
    /\ \E answer \in DecisionAnswers :
         LET update == make_decision_update(answer)
         IN  call' = [call EXCEPT !.node = "critique_decision",
                                  !.prompt_feedback = call.decision_feedback,
                                  !.final_decision = update.final_decision,
                                  !.status = update.status,
                                  !.path = Append(@, "make_decision")]
    /\ ApprovalUnchanged

\* critique_decision_node, lines 282-346, followed by the conditional edge of
\* should_revise
critique_decision_node ==
    /\ call.node = "critique_decision"
    /\ \E answer \in CritiqueAnswers :
         LET update == critique_decision_update(answer, call.revision_count)
             edge == should_revise(update.decision_feedback, update.revision_count)
         IN  call' = [call EXCEPT !.node = CritiqueEdges(edge),
                                  !.decision_feedback = update.decision_feedback,
                                  !.revision_count = update.revision_count,
                                  !.revised_at = IF edge = "revise"
                                                 THEN @ \cup {update.revision_count}
                                                 ELSE @,
                                  !.path = Append(@, "critique_decision")]
    /\ ApprovalUnchanged

\* save_db_node, lines 370-396: save_trip_record absorbs its failures and then
\* returns None
save_db_node ==
    /\ call.node = "save_db"
    /\ \E record_id \in {"id", NoneValue} :
         call' = [call EXCEPT !.node = "format_result",
                              !.record_id = record_id,
                              !.path = Append(@, "save_db")]
    /\ ApprovalUnchanged

\* format_result_node, lines 399-425, and the edge format_result -> END
format_result_node ==
    /\ call.node = "format_result"
    /\ call' = [call EXCEPT !.node = "END",
                            !.path = Append(@, "format_result")]
    /\ ApprovalUnchanged

\* one step of the compiled graph: the node that is due runs
GraphStep ==
    \/ agent_node
    \/ tool_executor
    \/ data_sync_node
    \/ check_weather_node
    \/ compliance_check_node
    \/ make_decision_node
    \/ critique_decision_node
    \/ save_db_node
    \/ format_result_node

NextApproval == UserMessage \/ GraphStep

\* app.invoke runs the graph until no node is due; the user may stop writing
SpecApproval == InitApproval /\ [][NextApproval]_vars /\ WF_vars(GraphStep)

\* an approval run is under way
InApprovalRun ==
    call.node \in {"check_weather", "compliance_check", "make_decision",
                   "critique_decision", "save_db", "format_result"}

\* the approval run has ended: save_db ran once, then format_result, then END
ApprovalEnded ==
    /\ call.node \in {"END", "agent", "tool_executor", "data_sync"}
    /\ Len(call.path) >= 2
    /\ call.path[Len(call.path) - 1] = "save_db"
    /\ call.path[Len(call.path)] = "format_result"
    /\ Occurrences(call.path, "save_db") = 1
    /\ Occurrences(call.path, "format_result") = 1

C29_Bounded ==
    (call.approvals > 0 /\ call.start_count = 0) =>
        /\ Occurrences(call.path, "make_decision") <= MAX_REVISIONS
        /\ \A c \in call.revised_at : c < MAX_REVISIONS
        /\ Occurrences(call.path, "critique_decision")
              <= Occurrences(call.path, "make_decision")
        /\ ~InApprovalRun => ApprovalEnded

C30_BudgetPerApproval ==
    (call.node = "make_decision" /\ Occurrences(call.path, "make_decision") = 0) =>
        /\ call.revision_count = 0
        /\ call.decision_feedback = NoneValue

====
